---- MODULE Spec2Model ----
(***************************************************************************)
(* A model of the reconciliation engine of terraform-provider-wallix-bastion:*)
(* the device-service resource (bastion/resource_device_service.go) and the *)
(* X509 configuration resource (bastion/resource_config_x509.go), run by    *)
(* resource instances against one remote API.                               *)
(*                                                                          *)
(* A resource instance is one schema.ResourceData `d` with the operation    *)
(* that is running on it.  Every action holds at most one remote request,   *)
(* so that the requests of two instances interleave the way the requests    *)
(* of two concurrently applied resources do.                                *)
(***************************************************************************)
EXTENDS Integers, Sequences, FiniteSets, TLC

VARIABLES
    bastionAPIVersion, \* Client.bastionAPIVersion
    declared,          \* the service_name each resource instance declares (ForceNew)
    services,          \* the remote's device services, a set of records
    nextId,            \* the remote's next opaque id
    d,                 \* d[p]: the ResourceData of instance p
    op,                \* op[p]: the operation run last (or running) on p
    pc,                \* pc[p]: where that operation stands
    ret,               \* ret[p]: what the operation returned
    calls,             \* calls[p]: the requests the operation has issued
    loc,               \* loc[p]: the operation's local variables
    nops,              \* operations started so far
    x509,              \* the remote's /config/x509
    xd,                \* xd[p]: the ResourceData of the X509 instance p
    xop, xpc, xret, xcalls, xloc, \* as op, pc, ret, calls, loc
    xnops,
    tin,               \* the translator alone: the ResourceData it is given
    tout,              \* and what prepareDeviceServiceJSON returned
    authorizations,    \* the remote's authorizations, a set of records
    anextId,           \* the remote's next opaque id of an authorization
    ad,                \* the ResourceData of the authorization instance
    aop, apc, aret, acalls, aloc, \* as op, pc, ret, calls, loc
    anops,
    rargv,             \* scripts/prepare-release.sh: its command line
    renv,              \* its environment
    rrest,             \* main: the arguments not yet parsed ("$@")
    ropt,              \* main: release_type, force_version, skip_tests, dry_run
    rpc,               \* where the script stands
    rexit,             \* its exit status, once it has exited
    rtags,             \* the tags of the git repository
    rpushed,           \* the tags pushed to origin
    rtag,              \* main: current_tag
    rver,              \* main: new_version
    rdone              \* what the script has done so far, in order

dsVars == <<bastionAPIVersion, declared, services, nextId, d, op, pc, ret, calls, loc, nops>>
xVars == <<x509, xd, xop, xpc, xret, xcalls, xloc, xnops>>
tVars == <<tin, tout>>
aVars == <<authorizations, anextId, ad, aop, apc, aret, acalls, aloc, anops>>
rVars == <<rargv, renv, rrest, ropt, rpc, rexit, rtags, rpushed, rtag, rver, rdone>>
vars == <<dsVars, xVars, tVars, aVars, rVars>>
\* what the operations of one kind of resource leave alone
notDS == <<xVars, tVars, aVars, rVars>>
notX509 == <<dsVars, tVars, aVars, rVars>>
notAuth == <<dsVars, xVars, tVars, rVars>>
notRelease == <<dsVars, xVars, tVars, aVars>>

----------------------------------------------------------------------------
(* Bounds of the model *)

MaxOps == 3       \* device-service operations started in one run
XMaxOps == 3      \* X509 operations started in one run
AMaxOps == 3      \* authorization operations started in one run
RMaxArgs == 3     \* arguments on the command line of the release script
MaxSubs == 2      \* sub-protocols declared, where the translator runs alone

Procs == {"p1", "p2"}
\* /config/x509 is one object of the remote: one instance manages it
XProcs == {"x1"}

----------------------------------------------------------------------------
(* Inputs, drawn from small sets *)

Versions == {"3.10", "3.12"}
DeviceIds == {"dev1", "dev9"}
RemoteDevices == {"dev1"}
ServiceNames == {"svcA"}
Protocols == {"SSH", "VNC"}
SubTokens == {"SSH_X11", "RDP_DRIVE"}
Policies == {"pol"}
Ports == {22}
DomainSets == {{}}

----------------------------------------------------------------------------
(* net/http status codes *)

StatusOK == 200
StatusNoContent == 204
StatusNotFound == 404
\* a remote rejection that is neither success nor not-found
OtherCodes == {500}

----------------------------------------------------------------------------
(* Errors: the value an operation returns.  NoErr is Go's nil. *)

NoErr == [kind |-> "nil", code |-> 0, text |-> "", what |-> ""]
Err(kind, what) == [kind |-> kind, code |-> 0, text |-> "", what |-> what]
\* fmt.Errorf("... %d with body:\n%s", code, body)
ApiErr(code, text) == [kind |-> "api", code |-> code, text |-> text, what |-> ""]

----------------------------------------------------------------------------
(* Version gate *)

defaultVersionsValid == {"3.12"}

resourceDeviceServiceVersionCheckOff(version) == NoErr

\* fmt.Errorf("resource <kind> not available with api version %s", version)
VersionErr(kind, version) ==
    [kind |-> "version", code |-> 0, text |-> version, what |-> kind]

resourceDeviceServiceVersionCheck(version) ==
    IF version \in defaultVersionsValid
    THEN NoErr
    ELSE VersionErr("wallix-bastion_device_service", version)

resourceDeviceVersionCheck(version) ==
    IF version \in defaultVersionsValid
    THEN NoErr
    ELSE VersionErr("wallix-bastion_device", version)

----------------------------------------------------------------------------
(* State translator of the device service *)

sshSubProtocolsValid ==
    {"SSH_SHELL_SESSION", "SSH_REMOTE_COMMAND", "SSH_SCP_UP", "SSH_SCP_DOWN",
     "SSH_X11", "SFTP_SESSION", "SSH_DIRECT_TCPIP", "SSH_REVERSE_TCPIP",
     "SSH_AUTH_AGENT", "SSH_DIRECT_UNIXSOCK", "SSH_REVERSE_UNIXSOCK"}

rdpSubProtocolsValid ==
    {"RDP_CLIPBOARD_UP", "RDP_CLIPBOARD_DOWN", "RDP_CLIPBOARD_FILE",
     "RDP_PRINTER", "RDP_COM_PORT", "RDP_DRIVE", "RDP_SMARTCARD",
     "RDP_AUDIO_OUTPUT", "RDP_AUDIO_INPUT"}

\* (*schema.Set).List(): the elements of the set in one fixed order
RECURSIVE List(_)
List(S) ==
    IF S = {} THEN <<>>
    ELSE LET x == CHOOSE y \in S : TRUE IN <<x>> \o List(S \ {x})

\* a *[]string of the wire: nil, or a list
NilList == [set |-> FALSE, val |-> <<>>]
PtrList(l) == [set |-> TRUE, val |-> l]

\* the loop, were it to return after its first round
SubProtocolsLoopFirst(protocol, l, i) ==
    IF i > Len(l) THEN NoErr
    ELSE IF protocol = "SSH"
         THEN IF l[i] \notin sshSubProtocolsValid THEN Err("config", l[i]) ELSE NoErr
    ELSE IF protocol = "RDP"
         THEN IF l[i] \notin rdpSubProtocolsValid THEN Err("config", l[i]) ELSE NoErr
    ELSE Err("config", protocol)

\* the loop of prepareDeviceServiceJSON over the sub-protocols, from index i:
\* the first error it returns, or NoErr when it runs to the end
RECURSIVE SubProtocolsLoop(_, _, _)
SubProtocolsLoop(protocol, l, i) ==
    IF i > Len(l) THEN NoErr
    ELSE IF protocol = "SSH"
         THEN IF l[i] \notin sshSubProtocolsValid
              THEN Err("config", l[i])
              ELSE SubProtocolsLoop(protocol, l, i + 1)
    ELSE IF protocol = "RDP"
         THEN IF l[i] \notin rdpSubProtocolsValid
              THEN Err("config", l[i])
              ELSE SubProtocolsLoop(protocol, l, i + 1)
    ELSE Err("config", protocol)

\* d.HasChange("global_domains")
HasChangeGlobalDomains(r) == r.global_domains # r.old_global_domains

\* prepareDeviceServiceJSON(d, newResource): [err, json]
prepareDeviceServiceJSON(r, newResource) ==
    LET base == [connection_policy |-> r.connection_policy,
                 port |-> r.port,
                 service_name |-> IF newResource THEN r.service_name ELSE "",
                 protocol |-> IF newResource THEN r.protocol ELSE "",
                 global_domains |-> IF HasChangeGlobalDomains(r)
                                    THEN PtrList(List(r.global_domains))
                                    ELSE NilList,
                 subprotocols |-> NilList]
        l == List(r.subprotocols)
        e == SubProtocolsLoop(r.protocol, l, 1)
    IN  IF Len(l) > 0
        THEN IF e # NoErr
             THEN [err |-> e, json |-> base]
             ELSE [err |-> NoErr, json |-> [base EXCEPT !.subprotocols = PtrList(l)]]
        ELSE [err |-> NoErr, json |-> base]

----------------------------------------------------------------------------
(* The wire: jsonDeviceService, response bodies, and what a request can end in *)

\* the zero value of jsonDeviceService
ZeroJSON == [id |-> "", service_name |-> "", protocol |-> "",
             connection_policy |-> "", port |-> 0,
             global_domains |-> NilList, subprotocols |-> NilList]

\* a remote record as the remote writes it in a response
ToWire(rec) == [id |-> rec.id, service_name |-> rec.service_name,
                protocol |-> rec.protocol,
                connection_policy |-> rec.connection_policy, port |-> rec.port,
                global_domains |-> PtrList(List(rec.global_domains)),
                subprotocols |-> PtrList(List(rec.subprotocols))]

\* json.Marshal of a jsonDeviceService: the fields the body holds, by the tags
\* of the struct (omitempty leaves out "", 0 and a nil pointer)
Marshalled(json) ==
    {"port", "connection_policy"}
    \cup (IF json.id # "" THEN {"id"} ELSE {})
    \cup (IF json.protocol # "" THEN {"protocol"} ELSE {})
    \cup (IF json.service_name # "" THEN {"service_name"} ELSE {})
    \cup (IF json.global_domains.set THEN {"global_domains"} ELSE {})
    \cup (IF json.subprotocols.set THEN {"subprotocols"} ELSE {})

TextBody(t) == [kind |-> "text", text |-> t, recs |-> <<>>]
ObjectBody(w) == [kind |-> "object", text |-> "", recs |-> <<w>>]
ListBody(l) == [kind |-> "list", text |-> "", recs |-> l]

\* c.newRequest returns (body, code, err); S and n are the remote's records and
\* next id once the request is over
Response(err, code, body, S, n) ==
    [err |-> err, code |-> code, body |-> body, services |-> S, nextId |-> n]

\* a transport failure, a rejection, a body that is not JSON: the remote unchanged
Failures(S, n) ==
    {Response(TRUE, 0, TextBody(""), S, n)}
    \cup {Response(FALSE, c, TextBody("boom"), S, n) : c \in OtherCodes}

NotJSON(S, n) == {Response(FALSE, StatusOK, TextBody("<html>"), S, n)}

SuccessCodes == {StatusOK, StatusNoContent}

\* GET /devices/{deviceID}
GetDevice(S, n, deviceID) ==
    Failures(S, n) \cup NotJSON(S, n)
    \cup {IF deviceID \in RemoteDevices
          THEN Response(FALSE, StatusOK, ObjectBody([ZeroJSON EXCEPT !.id = deviceID]), S, n)
          ELSE Response(FALSE, StatusNotFound, TextBody("not found"), S, n)}

Matches(S, deviceID, serviceName) ==
    {r \in S : r.device_id = deviceID /\ r.service_name = serviceName}

RECURSIVE WireList(_)
WireList(l) == IF l = <<>> THEN <<>> ELSE <<ToWire(Head(l))>> \o WireList(Tail(l))

\* GET /devices/{deviceID}/services/?q=service_name={serviceName}
GetSearch(S, n, deviceID, serviceName) ==
    Failures(S, n) \cup NotJSON(S, n)
    \cup {IF deviceID \in RemoteDevices
          THEN Response(FALSE, StatusOK,
                        ListBody(WireList(List(Matches(S, deviceID, serviceName)))), S, n)
          ELSE Response(FALSE, StatusNotFound, TextBody("not found"), S, n)}

ById(S, deviceID, serviceID) ==
    {r \in S : r.device_id = deviceID /\ r.id = serviceID}

\* GET /devices/{deviceID}/services/{serviceID}
GetService(S, n, deviceID, serviceID) ==
    Failures(S, n) \cup NotJSON(S, n)
    \cup {IF ById(S, deviceID, serviceID) # {}
          THEN Response(FALSE, StatusOK,
                        ObjectBody(ToWire(CHOOSE r \in ById(S, deviceID, serviceID) : TRUE)), S, n)
          ELSE Response(FALSE, StatusNotFound, TextBody("not found"), S, n)}

Range(l) == {l[i] : i \in 1..Len(l)}

\* the record the remote makes of a creation payload
Created(n, deviceID, json) ==
    [id |-> ToString(n), device_id |-> deviceID,
     service_name |-> json.service_name, protocol |-> json.protocol,
     connection_policy |-> json.connection_policy, port |-> json.port,
     global_domains |-> Range(json.global_domains.val),
     subprotocols |-> Range(json.subprotocols.val)]

\* the record the remote makes of an update payload: a list the payload omits
\* is left as it is
Updated(rec, json) ==
    [rec EXCEPT !.connection_policy = json.connection_policy,
                !.port = json.port,
                !.global_domains = IF json.global_domains.set
                                   THEN Range(json.global_domains.val) ELSE @,
                !.subprotocols = IF json.subprotocols.set
                                 THEN Range(json.subprotocols.val) ELSE @]

\* a mutating request the remote applied: answered with a success code, or the
\* answer lost on the way back
Applied(S, n) ==
    {Response(FALSE, c, TextBody(""), S, n) : c \in SuccessCodes}
    \cup {Response(TRUE, 0, TextBody(""), S, n)}

\* POST /devices/{deviceID}/services/
PostService(S, n, deviceID, json) ==
    Failures(S, n)
    \cup Applied(S \cup {Created(n, deviceID, json)}, n + 1)

\* PUT /devices/{deviceID}/services/{serviceID}?force=true
PutService(S, n, deviceID, serviceID, json) ==
    Failures(S, n)
    \cup IF ById(S, deviceID, serviceID) # {}
         THEN Applied({IF r \in ById(S, deviceID, serviceID) THEN Updated(r, json) ELSE r
                       : r \in S}, n)
         ELSE {Response(FALSE, StatusNotFound, TextBody("not found"), S, n)}

\* DELETE /devices/{deviceID}/services/{serviceID}
DeleteService(S, n, deviceID, serviceID) ==
    Failures(S, n)
    \cup IF ById(S, deviceID, serviceID) # {}
         THEN Applied(S \ ById(S, deviceID, serviceID), n)
         ELSE {Response(FALSE, StatusNotFound, TextBody("not found"), S, n)}

----------------------------------------------------------------------------
(* What each request function makes of the response *)

\* readDeviceOptions: [cfg, err]
readDeviceOptions(o) ==
    IF o.err THEN [cfg |-> ZeroJSON, err |-> Err("transport", "")]
    ELSE IF o.code = StatusNotFound THEN [cfg |-> ZeroJSON, err |-> NoErr]
    ELSE IF o.code # StatusOK THEN [cfg |-> ZeroJSON, err |-> ApiErr(o.code, o.body.text)]
    ELSE IF o.body.kind # "object" THEN [cfg |-> ZeroJSON, err |-> Err("json", "")]
    ELSE [cfg |-> o.body.recs[1], err |-> NoErr]

\* the search, were it to take the first record of a list of several
searchResourceDeviceServiceAny(o) ==
    IF o.err THEN [id |-> "", ex |-> FALSE, err |-> Err("transport", "")]
    ELSE IF o.code # StatusOK
         THEN [id |-> "", ex |-> FALSE, err |-> ApiErr(o.code, o.body.text)]
    ELSE IF o.body.kind # "list"
         THEN [id |-> "", ex |-> FALSE, err |-> Err("json", "")]
    ELSE IF Len(o.body.recs) >= 1
         THEN [id |-> o.body.recs[1].id, ex |-> TRUE, err |-> NoErr]
    ELSE [id |-> "", ex |-> FALSE, err |-> NoErr]

\* the search, were it to take a list of one record for no match
searchResourceDeviceServiceNone(o) ==
    IF o.err THEN [id |-> "", ex |-> FALSE, err |-> Err("transport", "")]
    ELSE IF o.code # StatusOK
         THEN [id |-> "", ex |-> FALSE, err |-> ApiErr(o.code, o.body.text)]
    ELSE IF o.body.kind # "list"
         THEN [id |-> "", ex |-> FALSE, err |-> Err("json", "")]
    ELSE [id |-> "", ex |-> FALSE, err |-> NoErr]

\* searchResourceDeviceService: [id, ex, err]
searchResourceDeviceService(o) ==
    IF o.err THEN [id |-> "", ex |-> FALSE, err |-> Err("transport", "")]
    ELSE IF o.code # StatusOK
         THEN [id |-> "", ex |-> FALSE, err |-> ApiErr(o.code, o.body.text)]
    ELSE IF o.body.kind # "list"
         THEN [id |-> "", ex |-> FALSE, err |-> Err("json", "")]
    ELSE IF Len(o.body.recs) = 1
         THEN [id |-> o.body.recs[1].id, ex |-> TRUE, err |-> NoErr]
    ELSE [id |-> "", ex |-> FALSE, err |-> NoErr]

\* readDeviceServiceOptions, were a 404 an error like the other codes
readDeviceServiceOptionsStrict(o) ==
    IF o.err THEN [cfg |-> ZeroJSON, err |-> Err("transport", "")]
    ELSE IF o.code # StatusOK THEN [cfg |-> ZeroJSON, err |-> ApiErr(o.code, o.body.text)]
    ELSE IF o.body.kind # "object" THEN [cfg |-> ZeroJSON, err |-> Err("json", "")]
    ELSE [cfg |-> o.body.recs[1], err |-> NoErr]

\* readDeviceServiceOptions: [cfg, err]
readDeviceServiceOptions(o) ==
    IF o.err THEN [cfg |-> ZeroJSON, err |-> Err("transport", "")]
    ELSE IF o.code = StatusNotFound THEN [cfg |-> ZeroJSON, err |-> NoErr]
    ELSE IF o.code # StatusOK THEN [cfg |-> ZeroJSON, err |-> ApiErr(o.code, o.body.text)]
    ELSE IF o.body.kind # "object" THEN [cfg |-> ZeroJSON, err |-> Err("json", "")]
    ELSE [cfg |-> o.body.recs[1], err |-> NoErr]

\* addDeviceService, were the status code not looked at
addDeviceServiceLenient(o) ==
    IF o.err THEN Err("transport", "") ELSE NoErr

\* addDeviceService, were its error to leave out the body
addDeviceServiceNoBody(o) ==
    IF o.err THEN Err("transport", "")
    ELSE IF o.code # StatusOK /\ o.code # StatusNoContent
         THEN ApiErr(o.code, "")
    ELSE NoErr

\* addDeviceService, once the payload is prepared and the POST answered
addDeviceService(o) ==
    IF o.err THEN Err("transport", "")
    ELSE IF o.code # StatusOK /\ o.code # StatusNoContent
         THEN ApiErr(o.code, o.body.text)
    ELSE NoErr

\* updateDeviceService, were a 404 taken as done
updateDeviceServiceLenient(o) ==
    IF o.err THEN Err("transport", "")
    ELSE IF o.code # StatusOK /\ o.code # StatusNoContent /\ o.code # StatusNotFound
         THEN ApiErr(o.code, o.body.text)
    ELSE NoErr

\* updateDeviceService, once the payload is prepared and the PUT answered
updateDeviceService(o) ==
    IF o.err THEN Err("transport", "")
    ELSE IF o.code # StatusOK /\ o.code # StatusNoContent
         THEN ApiErr(o.code, o.body.text)
    ELSE NoErr

\* deleteDeviceService, once the DELETE is answered
deleteDeviceService(o) ==
    IF o.err THEN Err("transport", "")
    ELSE IF o.code # StatusOK /\ o.code # StatusNoContent
         THEN ApiErr(o.code, o.body.text)
    ELSE NoErr

\* fillDeviceService, were it to leave subprotocols as they are
fillDeviceServiceNoSub(r, json) ==
    [r EXCEPT !.service_name = json.service_name,
              !.connection_policy = json.connection_policy,
              !.port = json.port,
              !.protocol = json.protocol,
              !.global_domains = Range(json.global_domains.val)]

\* fillDeviceService: d.Set of the six fields; a nil list sets the empty set
fillDeviceService(r, json) ==
    [r EXCEPT !.service_name = json.service_name,
              !.connection_policy = json.connection_policy,
              !.port = json.port,
              !.protocol = json.protocol,
              !.global_domains = Range(json.global_domains.val),
              !.subprotocols = Range(json.subprotocols.val)]

----------------------------------------------------------------------------
(* The resource instances of the device service *)

\* a ResourceData with nothing set: the instance is not in the state
ZeroD == [id |-> "", device_id |-> "", service_name |-> "", protocol |-> "",
          connection_policy |-> "", port |-> 0, global_domains |-> {},
          subprotocols |-> {}, old_global_domains |-> {}]

\* arg is the id Import was given
ZeroLoc == [id |-> "", dev |-> "", id0 |-> "", cfg |-> ZeroJSON, arg |-> <<>>]

\* what the SDK keeps of d once the operation is over: nothing when the id is
\* empty, and the values just written as the prior state of the next operation
Stored(r) ==
    IF r.id = "" THEN ZeroD ELSE [r EXCEPT !.old_global_domains = r.global_domains]

\* a request: its method, what its path names and, where the path ends in an
\* opaque id or a query, these
Request(method, what) == [method |-> method, what |-> what, id |-> "", query |-> ""]

\* the ids of the records of a response body
Ids(recs) == [i \in 1..Len(recs) |-> recs[i].id]

\* a request as calls remembers it, with its answer: the transport error, the
\* status code, the kind of body, its text and the ids of the records in it;
\* made is the id of the record the remote made on this request, if any
Call(q, o) ==
    [method |-> q.method, what |-> q.what, id |-> q.id, query |-> q.query,
     err |-> o.err, code |-> o.code,
     kind |-> o.body.kind, text |-> o.body.text, ids |-> Ids(o.body.recs),
     made |-> IF o.nextId # nextId THEN ToString(nextId) ELSE ""]

Idle(p) == pc[p] = "done"

\* an operation starts on p; what is remembered of the operations that are
\* over (their result, requests and locals) is forgotten
Begin(p, name) ==
    /\ Idle(p)
    /\ nops < MaxOps
    /\ nops' = nops + 1
    /\ op' = [q \in Procs |-> IF q = p THEN name ELSE IF Idle(q) THEN "none" ELSE op[q]]

Kept(f, p, v, first, zero) ==
    [q \in Procs |-> IF q = p THEN v
                     ELSE IF first /\ Idle(q) THEN zero ELSE f[q]]

\* the operation on p returns e, leaving r in d
Return(p, r, e, first) ==
    /\ d' = [d EXCEPT ![p] = Stored(r)]
    /\ ret' = Kept(ret, p, e, first, NoErr)
    /\ pc' = [pc EXCEPT ![p] = "done"]

\* the operation on p goes on at label l, with r in d
Goto(p, r, l, first) ==
    /\ d' = [d EXCEPT ![p] = r]
    /\ ret' = Kept(ret, p, NoErr, first, NoErr)
    /\ pc' = [pc EXCEPT ![p] = l]

\* the request q is sent and answered by o
Sent(p, q, o, first) ==
    /\ calls' = Kept(calls, p, (IF first THEN <<>> ELSE calls[p]) \o <<Call(q, o)>>,
                     first, <<>>)
    /\ services' = o.services
    /\ nextId' = o.nextId

\* the step sends nothing
Silent(p, first) ==
    /\ calls' = Kept(calls, p, IF first THEN <<>> ELSE calls[p], first, <<>>)
    /\ UNCHANGED <<services, nextId>>

\* the locals of the operation on p
Locals(p, v, first) == loc' = Kept(loc, p, v, first, ZeroLoc)

\* resourceDeviceServiceRead on r, as the whole of Read and as the end of
\* Create and Update
resourceDeviceServiceRead(p, r, first) ==
    LET gate == resourceDeviceServiceVersionCheck(bastionAPIVersion)
        l == IF first THEN ZeroLoc ELSE loc[p]
    IN  IF gate # NoErr
        THEN /\ Silent(p, first)
             /\ Return(p, r, gate, first)
             /\ Locals(p, [l EXCEPT !.id0 = r.id], first)
        ELSE \E o \in GetService(services, nextId, r.device_id, r.id) :
               LET got == readDeviceServiceOptions(o)
               IN  /\ Sent(p, [Request("GET", "service") EXCEPT !.id = r.id], o, first)
                   /\ Locals(p, [l EXCEPT !.id0 = r.id, !.cfg = got.cfg], first)
                   /\ IF got.err # NoErr THEN Return(p, r, got.err, first)
                      ELSE IF got.cfg.id = ""
                           THEN Return(p, [r EXCEPT !.id = ""], NoErr, first)
                      ELSE Return(p, fillDeviceService(r, got.cfg), NoErr, first)

\* resourceDeviceServiceCreate, were it to go on without the parent device
CreateStartAnyDevice(p) ==
    /\ d[p].id = ""
    /\ Begin(p, "Create")
    /\ Locals(p, ZeroLoc, TRUE)
    /\ \E dev \in DeviceIds, name \in {declared[p]}, proto \in Protocols,
          pol \in Policies, port \in Ports, dom \in DomainSets,
          sub \in SUBSET SubTokens :
         LET r == [ZeroD EXCEPT !.device_id = dev, !.service_name = name,
                                !.protocol = proto, !.connection_policy = pol,
                                !.port = port, !.global_domains = dom,
                                !.subprotocols = sub]
             gate == resourceDeviceServiceVersionCheck(bastionAPIVersion)
         IN  IF gate # NoErr
             THEN Silent(p, TRUE) /\ Return(p, r, gate, TRUE)
             ELSE \E o \in GetDevice(services, nextId, dev) :
                    LET got == readDeviceOptions(o)
                    IN  /\ Sent(p, Request("GET", "device"), o, TRUE)
                        /\ IF got.err # NoErr THEN Return(p, r, got.err, TRUE)
                           ELSE Goto(p, r, "c_pre", TRUE)
    /\ UNCHANGED <<bastionAPIVersion, declared, notDS>>

\* resourceDeviceServiceCreate up to the parent-device lookup
CreateStart(p) ==
    /\ d[p].id = ""
    /\ Begin(p, "Create")
    /\ Locals(p, ZeroLoc, TRUE)
    /\ \E dev \in DeviceIds, name \in {declared[p]}, proto \in Protocols,
          pol \in Policies, port \in Ports, dom \in DomainSets,
          sub \in SUBSET SubTokens :
         LET r == [ZeroD EXCEPT !.device_id = dev, !.service_name = name,
                                !.protocol = proto, !.connection_policy = pol,
                                !.port = port, !.global_domains = dom,
                                !.subprotocols = sub]
             gate == resourceDeviceServiceVersionCheck(bastionAPIVersion)
         IN  IF gate # NoErr
             THEN Silent(p, TRUE) /\ Return(p, r, gate, TRUE)
             ELSE \E o \in GetDevice(services, nextId, dev) :
                    LET got == readDeviceOptions(o)
                    IN  /\ Sent(p, Request("GET", "device"), o, TRUE)
                        /\ IF got.err # NoErr THEN Return(p, r, got.err, TRUE)
                           ELSE IF got.cfg.id = ""
                                THEN Return(p, r, Err("nodevice", dev), TRUE)
                           ELSE Goto(p, r, "c_pre", TRUE)
    /\ UNCHANGED <<bastionAPIVersion, declared, notDS>>

\* the pre-create search, were its result not looked at
CreatePreUnchecked(p) ==
    /\ pc[p] = "c_pre"
    /\ \E o \in GetSearch(services, nextId, d[p].device_id, d[p].service_name) :
         LET s == searchResourceDeviceService(o)
         IN  /\ Sent(p, Request("GET", "search"), o, FALSE)
             /\ IF s.err # NoErr THEN Return(p, d[p], s.err, FALSE)
                ELSE Goto(p, d[p], "c_post", FALSE)
    /\ UNCHANGED <<bastionAPIVersion, declared, op, loc, nops, notDS>>

\* the pre-create search
CreatePre(p) ==
    /\ pc[p] = "c_pre"
    /\ \E o \in GetSearch(services, nextId, d[p].device_id, d[p].service_name) :
         LET s == searchResourceDeviceService(o)
         IN  /\ Sent(p, Request("GET", "search"), o, FALSE)
             /\ IF s.err # NoErr THEN Return(p, d[p], s.err, FALSE)
                ELSE IF s.ex
                     THEN Return(p, d[p], Err("exists", d[p].service_name), FALSE)
                ELSE Goto(p, d[p], "c_post", FALSE)
    /\ UNCHANGED <<bastionAPIVersion, declared, op, loc, nops, notDS>>

\* addDeviceService, were it to look for the service once more and hold back
CreatePostExclusive(p) ==
    /\ pc[p] = "c_post"
    /\ LET j == prepareDeviceServiceJSON(d[p], TRUE)
       IN  IF j.err # NoErr
           THEN Silent(p, FALSE) /\ Return(p, d[p], j.err, FALSE)
           ELSE IF Matches(services, d[p].device_id, d[p].service_name) # {}
           THEN Silent(p, FALSE)
                /\ Return(p, d[p], Err("exists", d[p].service_name), FALSE)
           ELSE \E o \in PostService(services, nextId, d[p].device_id, j.json) :
                  LET e == addDeviceService(o)
                  IN  /\ Sent(p, Request("POST", "service"), o, FALSE)
                      /\ IF e # NoErr THEN Return(p, d[p], e, FALSE)
                         ELSE Goto(p, d[p], "c_find", FALSE)
    /\ UNCHANGED <<bastionAPIVersion, declared, op, loc, nops, notDS>>

\* addDeviceService
CreatePost(p) ==
    /\ pc[p] = "c_post"
    /\ LET j == prepareDeviceServiceJSON(d[p], TRUE)
       IN  IF j.err # NoErr
           THEN Silent(p, FALSE) /\ Return(p, d[p], j.err, FALSE)
           ELSE \E o \in PostService(services, nextId, d[p].device_id, j.json) :
                  LET e == addDeviceService(o)
                  IN  /\ Sent(p, Request("POST", "service"), o, FALSE)
                      /\ IF e # NoErr THEN Return(p, d[p], e, FALSE)
                         ELSE Goto(p, d[p], "c_find", FALSE)
    /\ UNCHANGED <<bastionAPIVersion, declared, op, loc, nops, notDS>>

\* the post-create search, were it to leave out the filter on service_name
CreateFindUnfiltered(p) ==
    /\ pc[p] = "c_find"
    /\ \E o \in {Response(FALSE, StatusOK,
                           ListBody(WireList(List({r \in services :
                                                     r.device_id = d[p].device_id}))),
                           services, nextId)} :
         LET s == searchResourceDeviceService(o)
         IN  /\ Sent(p, Request("GET", "search"), o, FALSE)
             /\ Locals(p, [loc[p] EXCEPT !.id = s.id], FALSE)
             /\ IF s.err # NoErr THEN Return(p, d[p], s.err, FALSE)
                ELSE IF ~s.ex
                     THEN Return(p, d[p],
                                 Err("notfound_after_post", d[p].service_name), FALSE)
                ELSE Goto(p, [d[p] EXCEPT !.id = s.id], "read", FALSE)
    /\ UNCHANGED <<bastionAPIVersion, declared, op, nops, notDS>>

\* the post-create search, and d.SetId
CreateFind(p) ==
    /\ pc[p] = "c_find"
    /\ \E o \in GetSearch(services, nextId, d[p].device_id, d[p].service_name) :
         LET s == searchResourceDeviceService(o)
         IN  /\ Sent(p, Request("GET", "search"), o, FALSE)
             /\ Locals(p, [loc[p] EXCEPT !.id = s.id], FALSE)
             /\ IF s.err # NoErr THEN Return(p, d[p], s.err, FALSE)
                ELSE IF ~s.ex
                     THEN Return(p, d[p],
                                 Err("notfound_after_post", d[p].service_name), FALSE)
                ELSE Goto(p, [d[p] EXCEPT !.id = s.id], "read", FALSE)
    /\ UNCHANGED <<bastionAPIVersion, declared, op, nops, notDS>>

\* return resourceDeviceServiceRead(ctx, d, m), of Create and of Update
ReadAfter(p) ==
    /\ pc[p] = "read"
    /\ resourceDeviceServiceRead(p, d[p], FALSE)
    /\ UNCHANGED <<bastionAPIVersion, declared, op, nops, notDS>>

\* resourceDeviceServiceRead, called by the SDK on an instance of the state
Read(p) ==
    /\ d[p].id # ""
    /\ Begin(p, "Read")
    /\ resourceDeviceServiceRead(p, d[p], TRUE)
    /\ UNCHANGED <<bastionAPIVersion, declared, notDS>>

\* the values an Update of the instance p can plan: the ForceNew attributes
\* are those of the state
Planned(p) ==
    {[d[p] EXCEPT !.connection_policy = pol, !.port = port,
                  !.global_domains = dom, !.subprotocols = sub,
                  !.old_global_domains = d[p].global_domains] :
       pol \in Policies, port \in Ports, dom \in DomainSets, sub \in SUBSET SubTokens}

\* resourceDeviceServiceUpdate, were it to return once the PUT is accepted
UpdateWithNoRead(p, r) ==
    LET gate == resourceDeviceVersionCheck(bastionAPIVersion)
        j == prepareDeviceServiceJSON(r, FALSE)
    IN  IF gate # NoErr THEN Silent(p, TRUE) /\ Return(p, d[p], gate, TRUE)
        ELSE IF j.err # NoErr
             THEN Silent(p, TRUE) /\ Return(p, d[p], j.err, TRUE)
        ELSE \E o \in PutService(services, nextId, r.device_id, r.id, j.json) :
               LET e == updateDeviceService(o)
               IN  /\ Sent(p, [Request("PUT", "service")
                                 EXCEPT !.id = r.id, !.query = "force=true"],
                           o, TRUE)
                   /\ IF e # NoErr THEN Return(p, d[p], e, TRUE)
                      ELSE Return(p, r, NoErr, TRUE)

\* resourceDeviceServiceUpdate up to updateDeviceService, with the planned
\* values r in d; with d.Partial(true) an error leaves the prior state
UpdateWith(p, r) ==
    LET gate == resourceDeviceVersionCheck(bastionAPIVersion)
        j == prepareDeviceServiceJSON(r, FALSE)
    IN  IF gate # NoErr THEN Silent(p, TRUE) /\ Return(p, d[p], gate, TRUE)
        ELSE IF j.err # NoErr
             THEN Silent(p, TRUE) /\ Return(p, d[p], j.err, TRUE)
        ELSE \E o \in PutService(services, nextId, r.device_id, r.id, j.json) :
               LET e == updateDeviceService(o)
               IN  /\ Sent(p, [Request("PUT", "service")
                                 EXCEPT !.id = r.id, !.query = "force=true"],
                           o, TRUE)
                   /\ IF e # NoErr THEN Return(p, d[p], e, TRUE)
                      ELSE Goto(p, r, "read", TRUE)

\* resourceDeviceServiceUpdate, called by the SDK on an instance of the state
UpdateStart(p) ==
    /\ d[p].id # ""
    /\ Begin(p, "Update")
    /\ Locals(p, [ZeroLoc EXCEPT !.id0 = d[p].id], TRUE)
    /\ \E r \in Planned(p) : UpdateWith(p, r)
    /\ UNCHANGED <<bastionAPIVersion, declared, notDS>>

\* resourceDeviceServiceDelete; after a Delete without error the SDK drops the
\* instance from the state
Delete(p) ==
    /\ d[p].id # ""
    /\ Begin(p, "Delete")
    /\ Locals(p, [ZeroLoc EXCEPT !.id0 = d[p].id], TRUE)
    /\ LET gate == resourceDeviceServiceVersionCheck(bastionAPIVersion)
       IN  IF gate # NoErr THEN Silent(p, TRUE) /\ Return(p, d[p], gate, TRUE)
           ELSE \E o \in DeleteService(services, nextId, d[p].device_id, d[p].id) :
                  LET e == deleteDeviceService(o)
                  IN  /\ Sent(p, [Request("DELETE", "service") EXCEPT !.id = d[p].id],
                              o, TRUE)
                      /\ IF e # NoErr THEN Return(p, d[p], e, TRUE)
                         ELSE Return(p, ZeroD, NoErr, TRUE)
    /\ UNCHANGED <<bastionAPIVersion, declared, notDS>>

\* the ids given to import a service called name: sequences of tokens, "/"
\* being the separator
ImportIds(name) == {<<"dev1", "/", name>>, <<"dev1">>,
                    <<"dev1", "/", name, "/", "x">>, <<"dev9", "/", name>>}

\* the format the errors of Import name
ImportFormat == "<device_id>/<service_name>"

\* the pieces of s as one string
RECURSIVE Join(_)
Join(s) == IF s = <<>> THEN "" ELSE Head(s) \o Join(Tail(s))

\* strings.Split, were it to split at the first separator only
SplitFirst(s) ==
    IF \A i \in 1..Len(s) : s[i] # "/" THEN <<Join(s)>>
    ELSE LET i == CHOOSE j \in 1..Len(s) : s[j] = "/" /\ \A k \in 1..(j - 1) : s[k] # "/"
         IN  <<Join(SubSeq(s, 1, i - 1)), Join(SubSeq(s, i + 1, Len(s)))>>

\* strings.Split(s, "/")
RECURSIVE Split(_)
Split(s) ==
    IF s = <<>> THEN <<"">>
    ELSE IF Head(s) = "/" THEN <<"">> \o Split(Tail(s))
    ELSE LET rest == Split(Tail(s))
         IN  <<Head(s) \o Head(rest)>> \o Tail(rest)

\* resourceDeviceServiceImport up to the search
ImportStart(p) ==
    /\ d[p].id = ""
    /\ Begin(p, "Import")
    /\ \E id \in ImportIds(declared[p]) :
         LET gate == resourceDeviceServiceVersionCheck(bastionAPIVersion)
             idSplit == Split(id)
         IN  IF gate # NoErr
             THEN /\ Silent(p, TRUE) /\ Return(p, ZeroD, gate, TRUE)
                  /\ Locals(p, ZeroLoc, TRUE)
             ELSE IF Len(idSplit) # 2
             THEN /\ Silent(p, TRUE)
                  /\ Return(p, ZeroD, Err("import_format", ImportFormat), TRUE)
                  /\ Locals(p, [ZeroLoc EXCEPT !.arg = id], TRUE)
             ELSE \E o \in GetSearch(services, nextId, idSplit[1], idSplit[2]) :
                    LET s == searchResourceDeviceService(o)
                    IN  /\ Sent(p, Request("GET", "search"), o, TRUE)
                        /\ Locals(p, [ZeroLoc EXCEPT !.id = s.id, !.dev = idSplit[1],
                                                     !.arg = id], TRUE)
                        /\ IF s.err # NoErr THEN Return(p, ZeroD, s.err, TRUE)
                           ELSE IF ~s.ex
                                THEN Return(p, ZeroD, Err("import_notfound", ImportFormat), TRUE)
                           ELSE Goto(p, ZeroD, "i_read", TRUE)
    /\ UNCHANGED <<bastionAPIVersion, declared, notDS>>

\* the rest of resourceDeviceServiceImport
ImportRead(p) ==
    /\ pc[p] = "i_read"
    /\ \E o \in GetService(services, nextId, loc[p].dev, loc[p].id) :
         LET got == readDeviceServiceOptions(o)
         IN  /\ Sent(p, [Request("GET", "service") EXCEPT !.id = loc[p].id], o, FALSE)
             /\ Locals(p, [loc[p] EXCEPT !.cfg = got.cfg], FALSE)
             /\ IF got.err # NoErr THEN Return(p, ZeroD, got.err, FALSE)
                ELSE Return(p, [fillDeviceService(d[p], got.cfg)
                                  EXCEPT !.id = loc[p].id, !.device_id = loc[p].dev],
                            NoErr, FALSE)
    /\ UNCHANGED <<bastionAPIVersion, declared, op, nops, notDS>>

----------------------------------------------------------------------------
(* The X509 configuration.  A string is a sequence of pieces of text, so that
   strings.Contains is decided on what the strings hold. *)

Empty == <<>>
CNTag == <<"/CN=">>
CommonNames == {<<"example", ".com">>, <<"other", ".com">>}

\* strings.Contains(s, substr)
Contains(s, substr) ==
    \E i \in 0..(Len(s) - Len(substr)) : SubSeq(s, i + 1, i + Len(substr)) = substr

\* a declared certificate: the text of the attribute, by what pem.Decode and
\* x509.ParseCertificate make of it
NoCert == [text |-> "", pem |-> FALSE, der |-> FALSE, cn |-> Empty]
NotPEM == [text |-> "garbage", pem |-> FALSE, der |-> FALSE, cn |-> Empty]
BadDER == [text |-> "pem", pem |-> TRUE, der |-> FALSE, cn |-> Empty]
Cert(cn) == [text |-> "pem", pem |-> TRUE, der |-> TRUE, cn |-> cn]
CertValues == {NoCert, NotPEM, BadDER} \cup {Cert(cn) : cn \in CommonNames}

\* the zero value of jsonConfigX509
ZeroX509 == [ca_certificate |-> Empty, server_public_key |-> Empty,
             enable |-> FALSE, default |-> FALSE]
DefaultX509 == [ZeroX509 EXCEPT !.default = TRUE]

\* the remote's embedded representation of a certificate it was sent
Embedded(v) == IF v = NoCert THEN Empty ELSE <<"/O=wallix">> \o CNTag \o v.cn

\* prepareConfigX509JSON
prepareConfigX509JSON(r) ==
    [ca_certificate |-> r.ca_certificate, server_public_key |-> r.server_public_key,
     server_private_key |-> "key", enable |-> r.enable]

\* the remote takes a configuration whose certificates it can read
Acceptable(json) ==
    /\ json.server_public_key.der
    /\ json.ca_certificate = NoCert \/ json.ca_certificate.der

Configured(json) ==
    [ca_certificate |-> Embedded(json.ca_certificate),
     server_public_key |-> Embedded(json.server_public_key),
     enable |-> json.enable, default |-> FALSE]

XResponse(err, code, body, X) == [err |-> err, code |-> code, body |-> body, x509 |-> X]

XFailures(X) ==
    {XResponse(TRUE, 0, TextBody(""), X)}
    \cup {XResponse(FALSE, c, TextBody("boom"), X) : c \in OtherCodes}

XApplied(X) ==
    {XResponse(FALSE, c, TextBody(""), X) : c \in SuccessCodes}
    \cup {XResponse(TRUE, 0, TextBody(""), X)}

\* POST and PUT /config/x509
SetX509(X, json) ==
    XFailures(X) \cup IF Acceptable(json) THEN XApplied(Configured(json)) ELSE {}

\* GET /config/x509: a failure, a 200 whose body is not JSON, a 204 (no
\* body), or the configuration
GetX509(X) ==
    XFailures(X)
    \cup {XResponse(FALSE, StatusOK, TextBody("<html>"), X),
          XResponse(FALSE, StatusNoContent, TextBody(""), X),
          XResponse(FALSE, StatusOK, ObjectBody(X), X)}

\* DELETE /config/x509: back to the default configuration; nothing to delete
\* when it is the default already
DeleteX509(X) ==
    XFailures(X)
    \cup IF X.default
         THEN {XResponse(FALSE, StatusNotFound, TextBody("not found"), X)}
         ELSE XApplied(DefaultX509)

\* updateConfigX509, were its error dropped
updateConfigX509Swallow(o) == NoErr

\* addConfigX509, updateConfigX509 and deleteConfigX509, once the request is answered
addConfigX509(o) ==
    IF o.err THEN Err("transport", "")
    ELSE IF o.code # StatusOK /\ o.code # StatusNoContent
         THEN ApiErr(o.code, o.body.text)
    ELSE NoErr

updateConfigX509(o) ==
    IF o.err THEN Err("transport", "")
    ELSE IF o.code # StatusOK /\ o.code # StatusNoContent
         THEN ApiErr(o.code, o.body.text)
    ELSE NoErr

deleteConfigX509(o) ==
    IF o.err THEN Err("transport", "")
    ELSE IF o.code # StatusOK /\ o.code # StatusNoContent
         THEN ApiErr(o.code, o.body.text)
    ELSE NoErr

\* readConfigX509Options: [cfg, err]
readConfigX509Options(o) ==
    IF o.err THEN [cfg |-> ZeroX509, err |-> Err("transport", "")]
    ELSE IF o.code = StatusNotFound THEN [cfg |-> ZeroX509, err |-> NoErr]
    ELSE IF o.code # StatusOK THEN [cfg |-> ZeroX509, err |-> ApiErr(o.code, o.body.text)]
    ELSE IF o.body.kind # "object" THEN [cfg |-> ZeroX509, err |-> Err("json", "")]
    ELSE [cfg |-> o.body.recs[1], err |-> NoErr]

\* fillConfigX509
fillConfigX509(r, cfg) == [r EXCEPT !.enable = cfg.enable]

\* the check, were it to compare the whole observed field
CheckCommonNameExact(v, observed) ==
    IF v.text = "" THEN "skip"
    ELSE IF ~v.pem THEN "panic"
    ELSE IF ~v.der THEN "error"
    ELSE IF observed # CNTag \o v.cn THEN "mismatch"
    ELSE "match"

\* the check of one declared certificate v against the observed field, in
\* resourceConfigX509Read: "skip" when v is empty, "panic" when pem.Decode
\* returns no block, "error" when the block does not parse, else "match" or
\* "mismatch"
CheckCommonName(v, observed) ==
    IF v.text = "" THEN "skip"
    ELSE IF ~v.pem THEN "panic"
    ELSE IF ~v.der THEN "error"
    ELSE IF ~Contains(observed, CNTag \o v.cn) THEN "mismatch"
    ELSE "match"

\* resourceConfigX509Read, were it to look at the declared certificates before
\* it looks at cfg.Default
X509ReadResultParsing(r, cfg) ==
    LET ca == CheckCommonName(r.ca_certificate, cfg.ca_certificate)
        pub == CheckCommonName(r.server_public_key, cfg.server_public_key)
    IN  IF ca = "panic" THEN [d |-> r, err |-> Err("panic", "ca_certificate")]
        ELSE IF ca = "error" THEN [d |-> r, err |-> Err("x509", "ca_certificate")]
        ELSE IF pub = "panic" THEN [d |-> r, err |-> Err("panic", "server_public_key")]
        ELSE IF pub = "error" THEN [d |-> r, err |-> Err("x509", "server_public_key")]
        ELSE IF cfg.default \/ ca = "mismatch" \/ pub = "mismatch"
             THEN [d |-> [r EXCEPT !.id = ""], err |-> NoErr]
        ELSE [d |-> fillConfigX509(r, cfg), err |-> NoErr]

\* resourceConfigX509Read after readConfigX509Options returned cfg without
\* error: [d, err]
X509ReadResult(r, cfg) ==
    LET ca == CheckCommonName(r.ca_certificate, cfg.ca_certificate)
        pub == CheckCommonName(r.server_public_key, cfg.server_public_key)
    IN  IF cfg.default THEN [d |-> [r EXCEPT !.id = ""], err |-> NoErr]
        ELSE IF ca = "panic" THEN [d |-> r, err |-> Err("panic", "ca_certificate")]
        ELSE IF ca = "error" THEN [d |-> r, err |-> Err("x509", "ca_certificate")]
        ELSE IF ca = "mismatch" THEN [d |-> [r EXCEPT !.id = ""], err |-> NoErr]
        ELSE IF pub = "panic" THEN [d |-> r, err |-> Err("panic", "server_public_key")]
        ELSE IF pub = "error" THEN [d |-> r, err |-> Err("x509", "server_public_key")]
        ELSE IF pub = "mismatch" THEN [d |-> [r EXCEPT !.id = ""], err |-> NoErr]
        ELSE [d |-> fillConfigX509(r, cfg), err |-> NoErr]

\* a ResourceData with nothing set: the instance is not in the state
ZeroXD == [id |-> "", ca_certificate |-> NoCert, server_public_key |-> NoCert,
           enable |-> FALSE]

XStored(r) == IF r.id = "" THEN ZeroXD ELSE r

XIdle(p) == xpc[p] = "done"

XBegin(p, name) ==
    /\ XIdle(p)
    /\ xnops < XMaxOps
    /\ xnops' = xnops + 1
    /\ xop' = [q \in XProcs |-> IF q = p THEN name ELSE IF XIdle(q) THEN "none" ELSE xop[q]]

XKept(f, p, v, first, zero) ==
    [q \in XProcs |-> IF q = p THEN v
                     ELSE IF first /\ XIdle(q) THEN zero ELSE f[q]]

XReturn(p, r, e, first) ==
    /\ xd' = [xd EXCEPT ![p] = XStored(r)]
    /\ xret' = XKept(xret, p, e, first, NoErr)
    /\ xpc' = [xpc EXCEPT ![p] = "done"]

XGoto(p, r, l, first) ==
    /\ xd' = [xd EXCEPT ![p] = r]
    /\ xret' = XKept(xret, p, NoErr, first, NoErr)
    /\ xpc' = [xpc EXCEPT ![p] = l]

XSent(p, q, o, first) ==
    /\ xcalls' = XKept(xcalls, p,
                       (IF first THEN <<>> ELSE xcalls[p])
                         \o <<[method |-> q.method, what |-> q.what, err |-> o.err,
                               code |-> o.code, kind |-> o.body.kind,
                               text |-> o.body.text]>>,
                       first, <<>>)
    /\ x509' = o.x509

\* the locals of an operation: the id and the certificates d held when
\* resourceConfigX509Read began, and the configuration it observed
ZeroXLoc == [id0 |-> "", cfg |-> ZeroX509, ca |-> NoCert, pub |-> NoCert]

\* resourceConfigX509Read, were it to delete the remote configuration it no
\* longer finds declared
resourceConfigX509ReadDeleting(p, r, first) ==
    \E o \in GetX509(x509) :
      LET got == readConfigX509Options(o)
          res == X509ReadResult(r, got.cfg)
      IN  /\ xloc' = XKept(xloc, p,
                           [id0 |-> r.id, cfg |-> got.cfg, ca |-> r.ca_certificate,
                            pub |-> r.server_public_key],
                           first, ZeroXLoc)
          /\ IF got.err # NoErr
             THEN XSent(p, Request("GET", "x509"), o, first) /\ XReturn(p, r, got.err, first)
             ELSE IF res.err = NoErr /\ res.d.id = "" /\ ~got.cfg.default
             THEN \E o2 \in DeleteX509(o.x509) :
                    /\ XSent(p, Request("DELETE", "x509"), o2, first)
                    /\ XReturn(p, res.d, res.err, first)
             ELSE XSent(p, Request("GET", "x509"), o, first)
                  /\ XReturn(p, res.d, res.err, first)

\* resourceConfigX509Read on r, as the whole of Read and as the end of Create
\* and Update
resourceConfigX509Read(p, r, first) ==
    \E o \in GetX509(x509) :
      LET got == readConfigX509Options(o)
          res == X509ReadResult(r, got.cfg)
      IN  /\ XSent(p, Request("GET", "x509"), o, first)
          /\ xloc' = XKept(xloc, p,
                           [id0 |-> r.id, cfg |-> got.cfg, ca |-> r.ca_certificate,
                            pub |-> r.server_public_key],
                           first, ZeroXLoc)
          /\ IF got.err # NoErr THEN XReturn(p, r, got.err, first)
             ELSE XReturn(p, res.d, res.err, first)

\* resourceConfigX509Create up to d.SetId("x509Config")
XCreateStart(p) ==
    /\ xd[p].id = ""
    /\ XBegin(p, "Create")
    /\ xloc' = XKept(xloc, p, ZeroXLoc, TRUE, ZeroXLoc)
    /\ \E ca \in CertValues, pub \in CertValues, en \in BOOLEAN :
         LET r == [id |-> "", ca_certificate |-> ca, server_public_key |-> pub,
                   enable |-> en]
         IN  \E o \in SetX509(x509, prepareConfigX509JSON(r)) :
               LET e == addConfigX509(o)
               IN  /\ XSent(p, Request("POST", "x509"), o, TRUE)
                   /\ IF e # NoErr THEN XReturn(p, r, e, TRUE)
                      ELSE XGoto(p, [r EXCEPT !.id = "x509Config"], "read", TRUE)
    /\ UNCHANGED notX509

\* return resourceConfigX509Read(ctx, d, m), of Create and of Update
XReadAfter(p) ==
    /\ xpc[p] = "read"
    /\ resourceConfigX509Read(p, xd[p], FALSE)
    /\ UNCHANGED <<xop, xnops, notX509>>

\* resourceConfigX509Read, called by the SDK on an instance of the state
XRead(p) ==
    /\ xd[p].id # ""
    /\ XBegin(p, "Read")
    /\ resourceConfigX509Read(p, xd[p], TRUE)
    /\ UNCHANGED notX509

\* resourceConfigX509Update up to updateConfigX509; the planned values are in d
\* and, d.Partial not being set, stay there when the update fails
XUpdateStart(p) ==
    /\ xd[p].id # ""
    /\ XBegin(p, "Update")
    /\ xloc' = XKept(xloc, p, [ZeroXLoc EXCEPT !.id0 = xd[p].id], TRUE, ZeroXLoc)
    /\ \E ca \in CertValues, pub \in CertValues, en \in BOOLEAN :
         LET r == [xd[p] EXCEPT !.ca_certificate = ca, !.server_public_key = pub,
                                !.enable = en]
         IN  \E o \in SetX509(x509, prepareConfigX509JSON(r)) :
               LET e == updateConfigX509(o)
               IN  /\ XSent(p, Request("PUT", "x509"), o, TRUE)
                   /\ IF e # NoErr THEN XReturn(p, r, e, TRUE)
                      ELSE XGoto(p, r, "read", TRUE)
    /\ UNCHANGED notX509

\* resourceConfigX509Delete
XDelete(p) ==
    /\ xd[p].id # ""
    /\ XBegin(p, "Delete")
    /\ xloc' = XKept(xloc, p, [ZeroXLoc EXCEPT !.id0 = xd[p].id], TRUE, ZeroXLoc)
    /\ \E o \in DeleteX509(x509) :
         LET e == deleteConfigX509(o)
         IN  /\ XSent(p, Request("DELETE", "x509"), o, TRUE)
             /\ IF e # NoErr THEN XReturn(p, xd[p], e, TRUE)
                ELSE XReturn(p, [xd[p] EXCEPT !.id = ""], NoErr, TRUE)
    /\ UNCHANGED notX509

\* resourceConfigX509Import: no request
XImport(p) ==
    /\ xd[p].id = ""
    /\ XBegin(p, "Import")
    /\ xloc' = XKept(xloc, p, ZeroXLoc, TRUE, ZeroXLoc)
    /\ xcalls' = XKept(xcalls, p, <<>>, TRUE, <<>>)
    /\ XReturn(p, [ZeroXD EXCEPT !.id = "x509Config"], NoErr, TRUE)
    /\ UNCHANGED <<x509, notX509>>

----------------------------------------------------------------------------
(* The specification of the device service *)

\* a device service made by an earlier run
Service0 == [id |-> "0", device_id |-> "dev1", service_name |-> "svcA",
             protocol |-> "SSH", connection_policy |-> "pol", port |-> 22,
             global_domains |-> {}, subprotocols |-> {"SSH_X11"}]

\* the ResourceData the state holds of a remote record
Tracked(rec) ==
    [id |-> rec.id, device_id |-> rec.device_id, service_name |-> rec.service_name,
     protocol |-> rec.protocol, connection_policy |-> rec.connection_policy,
     port |-> rec.port, global_domains |-> rec.global_domains,
     subprotocols |-> rec.subprotocols, old_global_domains |-> rec.global_domains]

\* nothing on the remote and nothing in the state, or, left by an earlier run,
\* one device service on the remote, which instance p1 may have in the state
DSInit ==
    /\ \E present \in BOOLEAN, tracked \in BOOLEAN :
         /\ tracked => present
         /\ services = IF present THEN {Service0} ELSE {}
         /\ d = [p \in Procs |-> IF tracked /\ p = "p1" THEN Tracked(Service0) ELSE ZeroD]
    /\ nextId = 1
    /\ op = [p \in Procs |-> "none"]
    /\ pc = [p \in Procs |-> "done"]
    /\ ret = [p \in Procs |-> NoErr]
    /\ calls = [p \in Procs |-> <<>>]
    /\ loc = [p \in Procs |-> ZeroLoc]
    /\ nops = 0

\* what the state held of the attributes before this pass
ZeroPrior == [connection_policy |-> "", port |-> 0, subprotocols |-> {}]

\* no payload, nothing read back
ZeroOut == [done |-> FALSE, err |-> NoErr, json |-> ZeroJSON, filled |-> FALSE,
            back |-> ZeroD]

TInit ==
    /\ tin = [d |-> ZeroD, newResource |-> FALSE, prior |-> ZeroPrior]
    /\ tout = ZeroOut

XInit ==
    /\ x509 = DefaultX509
    /\ xd = [p \in XProcs |-> ZeroXD]
    /\ xop = [p \in XProcs |-> "none"]
    /\ xpc = [p \in XProcs |-> "done"]
    /\ xret = [p \in XProcs |-> NoErr]
    /\ xcalls = [p \in XProcs |-> <<>>]
    /\ xloc = [p \in XProcs |-> ZeroXLoc]
    /\ xnops = 0

----------------------------------------------------------------------------
(* The authorization resource (wallix-bastion_authorization).  The sources
   hold its acceptance tests, not its code: the operations are those the
   Reconciler of the specification runs on every kind of resource, the
   translator is the State Translator of the specification, and the fields
   are those the acceptance tests declare. *)

AuthName == "testacc_Authorization"

\* the fields of the declared configuration that the claims are about
SharingFields == {"authorize_session_sharing", "session_sharing_mode"}
ApprovalFields == {"approval_required", "approvers", "active_quorum",
                   "inactive_quorum", "approval_timeout"}
AuthFields == SharingFields \cup ApprovalFields

AuthConfig(sharing, mode, required, approvers, active, inactive, timeout) ==
    [authorize_session_sharing |-> sharing, session_sharing_mode |-> mode,
     approval_required |-> required, approvers |-> approvers,
     active_quorum |-> active, inactive_quorum |-> inactive,
     approval_timeout |-> timeout]

ZeroAuth == AuthConfig(FALSE, "", FALSE, <<>>, 0, 0, 0)

SharingModes == {"view_only", "view_control"}

\* the configurations an operator declares: session sharing off or on in
\* either mode, with no approval, one approver group, two, or the same two
\* under another quorum and timeout
AuthConfigs ==
    {AuthConfig(s[1], s[2], a[1], a[2], a[3], a[4], a[5]) :
        s \in {<<FALSE, "">>} \cup {<<TRUE, m>> : m \in SharingModes},
        a \in {<<FALSE, <<>>, 0, 0, 0>>,
               <<TRUE, <<"grpA">>, 1, 1, 300>>,
               <<TRUE, <<"grpA", "grpB">>, 2, 1, 300>>,
               <<TRUE, <<"grpA", "grpB">>, 1, 1, 600>>}}

\* toWire, were the approvers of an update sent empty when they did not change
prepareAuthorizationJSONDropApprovers(new, prior, isCreate) ==
    [fields |-> IF isCreate THEN AuthFields
                ELSE {f \in AuthFields : new[f] # prior[f]} \cup {"approvers"},
     val |-> IF isCreate \/ new.approvers # prior.approvers THEN new
             ELSE [new EXCEPT !.approvers = <<>>]]

\* toWire, were the sharing mode of an update sent only with the sharing flag
prepareAuthorizationJSONNoMode(new, prior, isCreate) ==
    [fields |-> IF isCreate THEN AuthFields
                ELSE {f \in AuthFields : new[f] # prior[f]}
                     \ (IF new.authorize_session_sharing = prior.authorize_session_sharing
                        THEN {"session_sharing_mode"} ELSE {}),
     val |-> new]

\* toWire: every field for a creation, the fields the operator changed for an
\* update
prepareAuthorizationJSON(new, prior, isCreate) ==
    [fields |-> IF isCreate THEN AuthFields
                ELSE {f \in AuthFields : new[f] # prior[f]},
     val |-> new]

\* fromWire: the observed fields into the declared record
fillAuthorization(r, rec) ==
    [r EXCEPT !.authorization_name = rec.authorization_name, !.cfg = rec.cfg]

\* the remote: a request is lost, rejected, or answered
AFailures(S, n) ==
    {[err |-> TRUE, code |-> 0, text |-> "", recs |-> <<>>, next |-> S, nextId |-> n],
     [err |-> FALSE, code |-> 500, text |-> "boom", recs |-> <<>>, next |-> S,
      nextId |-> n]}

AAnswer(code, recs, S, n) ==
    [err |-> FALSE, code |-> code, text |-> "", recs |-> recs, next |-> S, nextId |-> n]

ANamed(S, name) == {r \in S : r.authorization_name = name}

\* GET /authorizations/?q=authorization_name=<name>
SearchAuthorization(S, n, name) ==
    AFailures(S, n)
    \cup {AAnswer(StatusOK, IF ANamed(S, name) = {} THEN <<>>
                            ELSE <<CHOOSE r \in ANamed(S, name) : TRUE>>, S, n)}

\* POST /authorizations/
PostAuthorization(S, n, name, json) ==
    AFailures(S, n)
    \cup {AAnswer(StatusNoContent, <<>>,
                  S \cup {[id |-> ToString(n), authorization_name |-> name,
                           cfg |-> [f \in AuthFields |->
                                      IF f \in json.fields THEN json.val[f]
                                      ELSE ZeroAuth[f]]]},
                  n + 1)}

\* GET /authorizations/<id>
GetAuthorization(S, n, id) ==
    AFailures(S, n)
    \cup {IF \E r \in S : r.id = id
          THEN AAnswer(StatusOK, <<CHOOSE r \in S : r.id = id>>, S, n)
          ELSE AAnswer(StatusNotFound, <<>>, S, n)}

\* PUT /authorizations/<id>: the fields of the payload replace those of the
\* record, the others stay
PutAuthorization(S, n, id, json) ==
    AFailures(S, n)
    \cup {IF \E r \in S : r.id = id
          THEN AAnswer(StatusNoContent, <<>>,
                       {IF r.id # id THEN r
                        ELSE [r EXCEPT !.cfg = [f \in AuthFields |->
                                                  IF f \in json.fields THEN json.val[f]
                                                  ELSE r.cfg[f]]] : r \in S},
                       n)
          ELSE AAnswer(StatusNotFound, <<>>, S, n)}

\* DELETE /authorizations/<id>
DeleteAuthorization(S, n, id) ==
    AFailures(S, n)
    \cup {IF \E r \in S : r.id = id
          THEN AAnswer(StatusNoContent, <<>>, {r \in S : r.id # id}, n)
          ELSE AAnswer(StatusNotFound, <<>>, S, n)}

\* the error of a mutating request, as of every resource of the provider
AuthorizationErr(o) ==
    IF o.err THEN Err("transport", "")
    ELSE IF o.code # StatusOK /\ o.code # StatusNoContent
         THEN ApiErr(o.code, o.text)
    ELSE NoErr

ZeroAD == [id |-> "", authorization_name |-> "", cfg |-> ZeroAuth]
\* decl: the configuration the operation was given; prior: the state before it
ZeroALoc == [decl |-> ZeroAuth, prior |-> ZeroAuth]

AInit ==
    /\ authorizations = {}
    /\ anextId = 1
    /\ ad = ZeroAD
    /\ aop = "none"
    /\ apc = "done"
    /\ aret = NoErr
    /\ acalls = <<>>
    /\ aloc = ZeroALoc
    /\ anops = 0

ABegin(name) ==
    /\ apc = "done"
    /\ anops < AMaxOps
    /\ anops' = anops + 1
    /\ aop' = name

AReturn(r, e) ==
    /\ ad' = (IF r.id = "" THEN ZeroAD ELSE r)
    /\ aret' = e
    /\ apc' = "done"

AGoto(r, l) ==
    /\ ad' = r
    /\ aret' = NoErr
    /\ apc' = l

ASent(q, o, first) ==
    /\ acalls' = (IF first THEN <<>> ELSE acalls)
                 \o <<[method |-> q.method, what |-> q.what, err |-> o.err,
                       code |-> o.code, fields |-> q.fields]>>
    /\ authorizations' = o.next
    /\ anextId' = o.nextId

ARequest(method, what, fields) == [method |-> method, what |-> what, fields |-> fields]

\* Read: fetch by opaque id; not found clears the tracked identity, found
\* loads the observed fields
resourceAuthorizationRead(r, first) ==
    \E o \in GetAuthorization(authorizations, anextId, r.id) :
        /\ ASent(ARequest("GET", "authorization", {}), o, first)
        /\ IF o.err \/ o.code \notin {StatusOK, StatusNotFound}
           THEN AReturn(r, IF o.err THEN Err("transport", "") ELSE ApiErr(o.code, o.text))
           ELSE IF o.code = StatusNotFound THEN AReturn([r EXCEPT !.id = ""], NoErr)
           ELSE AReturn(fillAuthorization(r, o.recs[1]), NoErr)

\* Create: the pre-create search
ACreateStart ==
    /\ ad.id = ""
    /\ ABegin("Create")
    /\ \E cfg \in AuthConfigs :
         LET r == [id |-> "", authorization_name |-> AuthName, cfg |-> cfg]
         IN  /\ aloc' = [decl |-> cfg, prior |-> ZeroAuth]
             /\ \E o \in SearchAuthorization(authorizations, anextId, AuthName) :
                  /\ ASent(ARequest("GET", "search", {}), o, TRUE)
                  /\ IF AuthorizationErr(o) # NoErr THEN AReturn(r, AuthorizationErr(o))
                     ELSE IF Len(o.recs) > 0 THEN AReturn(r, Err("exists", AuthName))
                     ELSE AGoto(r, "a_post")
    /\ UNCHANGED notAuth

\* Create: the POST of the whole configuration
ACreatePost ==
    /\ apc = "a_post"
    /\ LET json == prepareAuthorizationJSON(ad.cfg, ZeroAuth, TRUE)
       IN  \E o \in PostAuthorization(authorizations, anextId, ad.authorization_name, json) :
             /\ ASent(ARequest("POST", "authorization", json.fields), o, FALSE)
             /\ IF AuthorizationErr(o) # NoErr THEN AReturn(ad, AuthorizationErr(o))
                ELSE AGoto(ad, "a_find")
    /\ UNCHANGED <<aop, aloc, anops, notAuth>>

\* Create: the search that recovers the opaque id
ACreateFind ==
    /\ apc = "a_find"
    /\ \E o \in SearchAuthorization(authorizations, anextId, ad.authorization_name) :
         /\ ASent(ARequest("GET", "search", {}), o, FALSE)
         /\ IF AuthorizationErr(o) # NoErr THEN AReturn(ad, AuthorizationErr(o))
            ELSE IF Len(o.recs) = 0 THEN AReturn(ad, Err("notfound_after_post", AuthName))
            ELSE AGoto([ad EXCEPT !.id = o.recs[1].id], "a_read")
    /\ UNCHANGED <<aop, aloc, anops, notAuth>>

\* the re-read that ends Create and Update
AReadAfter ==
    /\ apc = "a_read"
    /\ resourceAuthorizationRead(ad, FALSE)
    /\ UNCHANGED <<aop, aloc, anops, notAuth>>

ARead ==
    /\ ad.id # ""
    /\ ABegin("Read")
    /\ aloc' = [decl |-> ad.cfg, prior |-> ad.cfg]
    /\ resourceAuthorizationRead(ad, TRUE)
    /\ UNCHANGED notAuth

\* Update: the PUT of the fields that changed; a failed update leaves the
\* prior state
AUpdateStart ==
    /\ ad.id # ""
    /\ ABegin("Update")
    /\ \E cfg \in AuthConfigs \ {ad.cfg} :
         LET json == prepareAuthorizationJSON(cfg, ad.cfg, FALSE)
         IN  /\ aloc' = [decl |-> cfg, prior |-> ad.cfg]
             /\ \E o \in PutAuthorization(authorizations, anextId, ad.id, json) :
                  /\ ASent(ARequest("PUT", "authorization", json.fields), o, TRUE)
                  /\ IF AuthorizationErr(o) # NoErr THEN AReturn(ad, AuthorizationErr(o))
                     ELSE AGoto([ad EXCEPT !.cfg = cfg], "a_read")
    /\ UNCHANGED notAuth

\* Delete: already gone is success
ADelete ==
    /\ ad.id # ""
    /\ ABegin("Delete")
    /\ aloc' = [decl |-> ad.cfg, prior |-> ad.cfg]
    /\ \E o \in DeleteAuthorization(authorizations, anextId, ad.id) :
         /\ ASent(ARequest("DELETE", "authorization", {}), o, TRUE)
         /\ IF o.err THEN AReturn(ad, Err("transport", ""))
            ELSE IF o.code \notin {StatusOK, StatusNoContent, StatusNotFound}
                 THEN AReturn(ad, ApiErr(o.code, o.text))
            ELSE AReturn([ad EXCEPT !.id = ""], NoErr)
    /\ UNCHANGED notAuth

----------------------------------------------------------------------------
(* The release script, scripts/prepare-release.sh.  A string the script
   takes apart (a tag, an argument) is the sequence of its pieces: a flag is
   one piece, a version one piece per character. *)

DigitChars == <<"0", "1", "2", "3", "4", "5", "6", "7", "8", "9">>

IsDigit(c) == \E i \in 1..Len(DigitChars) : DigitChars[i] = c
DigitOf(c) == (CHOOSE i \in 1..Len(DigitChars) : DigitChars[i] = c) - 1

\* $((x)): the value of a decimal numeral, 0 for the empty string
RECURSIVE Arith(_)
Arith(ds) ==
    IF ds = <<>> THEN 0
    ELSE 10 * Arith(SubSeq(ds, 1, Len(ds) - 1)) + DigitOf(ds[Len(ds)])

\* the decimal numeral of n, as the shell expands it
RECURSIVE Numeral(_)
Numeral(n) ==
    IF n < 10 THEN <<DigitChars[n + 1]>>
    ELSE Numeral(n \div 10) \o <<DigitChars[(n % 10) + 1]>>

\* IFS='.' read -ra VERSION_PARTS
RECURSIVE ReadParts(_)
ReadParts(s) ==
    IF s = <<>> THEN <<>>
    ELSE IF \A i \in 1..Len(s) : s[i] # "." THEN <<s>>
    ELSE LET i == CHOOSE j \in 1..Len(s) : s[j] = "." /\ \A k \in 1..(j - 1) : s[k] # "."
         IN  <<SubSeq(s, 1, i - 1)>> \o ReadParts(SubSeq(s, i + 1, Len(s)))

\* ${VERSION_PARTS[i]}: empty when the part is not there
Part(parts, i) == IF i <= Len(parts) THEN parts[i] ELSE <<>>

\* echo "v${major}.${minor}.${patch}"
EchoVersion(major, minor, patch) ==
    <<"v">> \o major \o <<".">> \o minor \o <<".">> \o patch

\* increment_version, were a minor release to keep the patch number
increment_versionKeepPatch(version, type) ==
    LET parts == ReadParts(IF version # <<>> /\ Head(version) = "v"
                           THEN Tail(version) ELSE version)
        major == Part(parts, 1)
        minor == Part(parts, 2)
        patch == Part(parts, 3)
    IN  IF type = "major"
        THEN EchoVersion(Numeral(Arith(major) + 1), <<"0">>, <<"0">>)
        ELSE IF type = "minor"
        THEN EchoVersion(major, Numeral(Arith(minor) + 1), patch)
        ELSE EchoVersion(major, minor, Numeral(Arith(patch) + 1))

\* increment_version
increment_version(version, type) ==
    LET parts == ReadParts(IF version # <<>> /\ Head(version) = "v"
                           THEN Tail(version) ELSE version)
        major == Part(parts, 1)
        minor == Part(parts, 2)
        patch == Part(parts, 3)
    IN  IF type = "major"
        THEN EchoVersion(Numeral(Arith(major) + 1), <<"0">>, <<"0">>)
        ELSE IF type = "minor"
        THEN EchoVersion(major, Numeral(Arith(minor) + 1), <<"0">>)
        ELSE EchoVersion(major, minor, Numeral(Arith(patch) + 1))

\* the test of the forced version, were every value to pass it
ValidVersionAny(v) == TRUE

\* [[ "$new_version" =~ ^v[0-9]+\.[0-9]+\.[0-9]+$ ]]
ValidVersion(v) ==
    /\ v # <<>> /\ Head(v) = "v"
    /\ Len(v) > 1 /\ v[Len(v)] # "."
    /\ LET parts == ReadParts(Tail(v))
       IN  /\ Len(parts) = 3
           /\ \A i \in 1..3 : parts[i] # <<>> /\ \A j \in 1..Len(parts[i]) : IsDigit(parts[i][j])

\* the tag vX.Y.Z
Tag(x, y, z) == EchoVersion(Numeral(x), Numeral(y), Numeral(z))

\* the numbers of a tag
Triple(t) ==
    LET parts == ReadParts(Tail(t))
    IN  <<Arith(Part(parts, 1)), Arith(Part(parts, 2)), Arith(Part(parts, 3))>>

Before(a, b) ==
    \/ a[1] < b[1]
    \/ a[1] = b[1] /\ a[2] < b[2]
    \/ a[1] = b[1] /\ a[2] = b[2] /\ a[3] <= b[3]

\* get_latest_tag: git tag --sort=-version:refname | head -1, which prints
\* nothing in a repository without tags
get_latest_tag(tags) ==
    IF tags = {} THEN <<>>
    ELSE CHOOSE t \in tags : \A u \in tags : Before(Triple(u), Triple(t))

\* the repositories the script is run in, by their tags: one or two releases,
\* none yet, or one tag of two numbers only
TagSets == {{Tag(0, 14, 7)}, {Tag(0, 14, 7), Tag(1, 9, 9)}, {},
            {<<"v", "1", ".", "0">>}}

\* the words of a command line: the options of the script, one that it does
\* not know, and values for --version of the right and of a wrong form
Flags == {<<"--major">>, <<"--minor">>, <<"--patch">>, <<"--version">>,
          <<"--skip-tests">>, <<"--dry-run">>, <<"--help">>, <<"--force">>}
Words == Flags \cup {Tag(1, 9, 9), Tail(Tag(2, 0, 0))}

\* git tag -a takes the name: git refuses the empty name, a name that begins
\* with "-" (the flags, each one piece) or with ".", holds ".." or ends
\* with "."
ValidTagName(v) ==
    /\ v # <<>> /\ Head(v) # "." /\ v[Len(v)] # "."
    /\ <<Head(v)>> \notin Flags
    /\ \A i \in 1..(Len(v) - 1) : ~(v[i] = "." /\ v[i + 1] = ".")

\* the command lines of at most n words
ArgLines(n) == UNION {[1..k -> Words] : k \in 0..n}

\* DRY_RUN and SKIP_TESTS: unset or true
Envs == [{"DRY_RUN", "SKIP_TESTS"} -> {"", "true"}]

Replies == {"y", "n"}

\* main: the local variables as declared
ZeroOpt == [release_type |-> "patch", force_version |-> <<>>,
            skip_tests |-> FALSE, dry_run |-> FALSE]

\* no script is run
RInit ==
    /\ rargv = <<>>
    /\ renv = [v \in {"DRY_RUN", "SKIP_TESTS"} |-> ""]
    /\ rrest = <<>>
    /\ ropt = ZeroOpt
    /\ rpc = "idle"
    /\ rexit = 0
    /\ rtags = {}
    /\ rpushed = {}
    /\ rtag = <<>>
    /\ rver = <<>>
    /\ rdone = <<>>

\* the script is started
Started ==
    /\ rargv \in ArgLines(RMaxArgs)
    /\ renv \in Envs
    /\ rrest = rargv
    /\ ropt = ZeroOpt
    /\ rpc = "parse"
    /\ rexit = 0
    /\ rtags \in TagSets
    /\ rpushed = rtags
    /\ rtag = <<>>
    /\ rver = <<>>
    /\ rdone = <<>>

\* exit n
Exit(n) == rpc' = "exit" /\ rexit' = n

\* the step does e
Does(e) == rdone' = Append(rdone, e)

\* where main goes once the arguments are parsed
AfterParse(opt) == IF opt.dry_run THEN "version" ELSE "status"

\* main after the next version is known, were the dry run not to stop there
AfterVersionAlways(opt) == "confirm"

\* where main goes once the next version is known
AfterVersion(opt) == IF opt.dry_run THEN "plan" ELSE "confirm"

\* main after the dependencies, were the tests never run
AfterDependenciesSkip(opt) == "commit"

\* where main goes once the dependencies are updated
AfterDependencies(opt) == IF opt.skip_tests THEN "commit" ELSE "lint"

\* main: one round of the loop over the arguments
ParseArgument ==
    /\ rpc = "parse" /\ rrest # <<>>
    /\ LET a == Head(rrest)
       IN  IF a \in {<<"--major">>, <<"--minor">>, <<"--patch">>}
           THEN /\ ropt' = [ropt EXCEPT !.release_type =
                              IF a = <<"--major">> THEN "major"
                              ELSE IF a = <<"--minor">> THEN "minor" ELSE "patch"]
                /\ rrest' = Tail(rrest)
                /\ UNCHANGED <<rpc, rexit>>
           ELSE IF a = <<"--version">>
           THEN IF Len(rrest) >= 2
                THEN /\ ropt' = [ropt EXCEPT !.force_version = rrest[2]]
                     /\ rrest' = Tail(Tail(rrest))
                     /\ UNCHANGED <<rpc, rexit>>
                ELSE \* shift 2 fails, and set -e ends the script
                     /\ ropt' = [ropt EXCEPT !.force_version = <<>>]
                     /\ Exit(1)
                     /\ UNCHANGED rrest
           ELSE IF a = <<"--skip-tests">>
           THEN /\ ropt' = [ropt EXCEPT !.skip_tests = TRUE]
                /\ rrest' = Tail(rrest)
                /\ UNCHANGED <<rpc, rexit>>
           ELSE IF a = <<"--dry-run">>
           THEN /\ ropt' = [ropt EXCEPT !.dry_run = TRUE]
                /\ rrest' = Tail(rrest)
                /\ UNCHANGED <<rpc, rexit>>
           ELSE IF a = <<"--help">>
           THEN /\ Exit(0) /\ UNCHANGED <<ropt, rrest>>
           ELSE /\ Exit(1) /\ UNCHANGED <<ropt, rrest>>
    /\ UNCHANGED <<rargv, renv, rtags, rpushed, rtag, rver, rdone, notRelease>>

\* main: the arguments are parsed
Parsed ==
    /\ rpc = "parse" /\ rrest = <<>>
    /\ rpc' = AfterParse(ropt)
    /\ UNCHANGED <<rargv, renv, rrest, ropt, rexit, rtags, rpushed, rtag, rver, rdone,
                   notRelease>>

\* check_git_status
check_git_status ==
    /\ rpc = "status"
    /\ \E clean \in BOOLEAN :
         IF clean THEN Does("clean") /\ rpc' = "branch" /\ UNCHANGED rexit
         ELSE Does("dirty") /\ Exit(1)
    /\ UNCHANGED <<rargv, renv, rrest, ropt, rtags, rpushed, rtag, rver, notRelease>>

\* check_branch
check_branch ==
    /\ rpc = "branch"
    /\ \E develop \in BOOLEAN, reply \in Replies :
         IF develop THEN rpc' = "version" /\ UNCHANGED <<rexit, rdone>>
         ELSE /\ Does("asked_branch")
              /\ IF reply = "y" THEN rpc' = "version" /\ UNCHANGED rexit ELSE Exit(1)
    /\ UNCHANGED <<rargv, renv, rrest, ropt, rtags, rpushed, rtag, rver, notRelease>>

\* main: the current and the next version
NextVersion ==
    /\ rpc = "version"
    /\ rtag' = get_latest_tag(rtags)
    /\ IF ropt.force_version # <<>>
       THEN IF ValidVersion(ropt.force_version)
            THEN /\ rver' = ropt.force_version
                 /\ rpc' = AfterVersion(ropt) /\ UNCHANGED rexit
            ELSE /\ rver' = ropt.force_version
                 /\ Exit(1)
       ELSE /\ rver' = increment_version(rtag', ropt.release_type)
            /\ rpc' = AfterVersion(ropt) /\ UNCHANGED rexit
    /\ UNCHANGED <<rargv, renv, rrest, ropt, rtags, rpushed, rdone, notRelease>>

\* main: the dry run prints what would be done
DryRun ==
    /\ rpc = "plan"
    /\ Does("plan")
    /\ Exit(0)
    /\ UNCHANGED <<rargv, renv, rrest, ropt, rtags, rpushed, rtag, rver, notRelease>>

\* main: "Proceed with release?"
Confirm ==
    /\ rpc = "confirm"
    /\ \E reply \in Replies :
         IF reply = "y" THEN Does("confirmed") /\ rpc' = "deps" /\ UNCHANGED rexit
         ELSE Does("refused") /\ Exit(0)
    /\ UNCHANGED <<rargv, renv, rrest, ropt, rtags, rpushed, rtag, rver, notRelease>>

\* update_dependencies: go get, go mod tidy, go mod verify
update_dependencies ==
    /\ rpc = "deps"
    /\ \E ok \in BOOLEAN :
         IF ok THEN Does("deps") /\ rpc' = AfterDependencies(ropt) /\ UNCHANGED rexit
         ELSE Does("deps_failed") /\ Exit(1)
    /\ UNCHANGED <<rargv, renv, rrest, ropt, rtags, rpushed, rtag, rver, notRelease>>

\* run_tests: golangci-lint run, when golangci-lint is there
RunLint ==
    /\ rpc = "lint"
    /\ \E installed \in BOOLEAN, ok \in BOOLEAN :
         IF ~installed THEN Does("lint_skipped") /\ rpc' = "test" /\ UNCHANGED rexit
         ELSE IF ok THEN Does("lint") /\ rpc' = "test" /\ UNCHANGED rexit
         ELSE Does("lint_failed") /\ Exit(1)
    /\ UNCHANGED <<rargv, renv, rrest, ropt, rtags, rpushed, rtag, rver, notRelease>>

\* run_tests: go test ./...
RunUnitTests ==
    /\ rpc = "test"
    /\ \E ok \in BOOLEAN :
         IF ok THEN Does("test") /\ rpc' = "build" /\ UNCHANGED rexit
         ELSE Does("test_failed") /\ Exit(1)
    /\ UNCHANGED <<rargv, renv, rrest, ropt, rtags, rpushed, rtag, rver, notRelease>>

\* run_tests: make build
RunBuild ==
    /\ rpc = "build"
    /\ \E ok \in BOOLEAN :
         IF ok THEN Does("build") /\ rpc' = "commit" /\ UNCHANGED rexit
         ELSE Does("build_failed") /\ Exit(1)
    /\ UNCHANGED <<rargv, renv, rrest, ropt, rtags, rpushed, rtag, rver, notRelease>>

\* main: update_changelog, which changes nothing, and the commit of what the
\* update of the dependencies changed
Commit ==
    /\ rpc = "commit"
    /\ \E dirty \in BOOLEAN, ok \in BOOLEAN :
         IF ~dirty THEN rpc' = "tag" /\ UNCHANGED <<rexit, rdone>>
         ELSE IF ok THEN Does("commit") /\ rpc' = "tag" /\ UNCHANGED rexit
         ELSE Does("commit_failed") /\ Exit(1)
    /\ UNCHANGED <<rargv, renv, rrest, ropt, rtags, rpushed, rtag, rver, notRelease>>

\* create_tag: git tag -a, which fails on a tag that exists and on a name
\* that is not one of a tag, and the push
CreateTag ==
    /\ rpc = "tag"
    /\ IF rver \in rtags \/ ~ValidTagName(rver)
       THEN Does("tag_failed") /\ Exit(1) /\ UNCHANGED <<rtags, rpushed>>
       ELSE /\ rtags' = rtags \cup {rver}
            /\ \E reply \in Replies, ok \in BOOLEAN :
                 IF reply # "y"
                 THEN /\ rdone' = rdone \o <<"tag", "asked_push">>
                      /\ rpc' = "notes" /\ UNCHANGED <<rexit, rpushed>>
                 ELSE IF ok
                 THEN /\ rdone' = rdone \o <<"tag", "asked_push", "push">>
                      /\ rpushed' = rpushed \cup {rver}
                      /\ rpc' = "notes" /\ UNCHANGED rexit
                 ELSE /\ rdone' = rdone \o <<"tag", "asked_push", "push_failed">>
                      /\ Exit(1) /\ UNCHANGED rpushed
    /\ UNCHANGED <<rargv, renv, rrest, ropt, rtag, rver, notRelease>>

\* generate_release_notes and the end of main
ReleaseNotes ==
    /\ rpc = "notes"
    /\ Does("notes")
    /\ Exit(0)
    /\ UNCHANGED <<rargv, renv, rrest, ropt, rtags, rpushed, rtag, rver, notRelease>>

\* every instance declares the same service
OneKey == declared \in [Procs -> ServiceNames]

Init ==
    /\ bastionAPIVersion \in Versions
    /\ OneKey
    /\ DSInit
    /\ XInit
    /\ AInit
    /\ RInit
    /\ TInit

Next ==
    \E p \in Procs :
        \/ CreateStart(p)
        \/ CreatePre(p)
        \/ CreatePost(p)
        \/ CreateFind(p)
        \/ ReadAfter(p)
        \/ Read(p)
        \/ UpdateStart(p)
        \/ Delete(p)
        \/ ImportStart(p)
        \/ ImportRead(p)

Spec == Init /\ [][Next]_vars

----------------------------------------------------------------------------
(* The specification of the X509 configuration *)

InitX509 ==
    /\ bastionAPIVersion \in defaultVersionsValid
    /\ OneKey
    /\ services = {}
    /\ DSInit
    /\ XInit
    /\ AInit
    /\ RInit
    /\ TInit

NextX509 ==
    \E p \in XProcs :
        \/ XCreateStart(p)
        \/ XReadAfter(p)
        \/ XRead(p)
        \/ XUpdateStart(p)
        \/ XDelete(p)
        \/ XImport(p)

SpecX509 == InitX509 /\ [][NextX509]_vars

----------------------------------------------------------------------------
(* Both kinds of resource: a run works on the device services or on the X509
   configuration, which share nothing *)

NextAll ==
    \/ xnops = 0 /\ Next
    \/ nops = 0 /\ NextX509

SpecAll == Init /\ [][NextAll]_vars

----------------------------------------------------------------------------
(* The translator alone: prepareDeviceServiceJSON on every declared
   configuration of the bounded sets *)

TProtocols == {"SSH", "RDP", "VNC"}
TTokens == sshSubProtocolsValid \cup rdpSubProtocolsValid \cup {"OTHER"}
TDomainSets == {{}, {"dom"}}

\* the sets of at most k tokens
RECURSIVE TSubsets(_)
TSubsets(k) ==
    IF k = 0 THEN {{}}
    ELSE LET prev == TSubsets(k - 1)
         IN  prev \cup {S \cup {t} : S \in prev, t \in TTokens}

TPolicies == {"pol", "old"}
TPorts == {22, 2222}

\* a new resource has no prior state; an update has one, in which each
\* attribute is what is declared now or something else.  service_name is
\* Required and unvalidated (the empty string is a value of the schema);
\* protocol is one of the StringInSlice values
InitTranslate ==
    /\ bastionAPIVersion \in defaultVersionsValid
    /\ OneKey
    /\ services = {}
    /\ DSInit
    /\ XInit
    /\ AInit
    /\ RInit
    /\ tout = ZeroOut
    /\ \E proto \in TProtocols, sub \in TSubsets(MaxSubs), dom \in TDomainSets,
          name \in {"svcA", ""} :
         LET r == [ZeroD EXCEPT !.device_id = "dev1", !.service_name = name,
                                !.protocol = proto, !.connection_policy = "pol",
                                !.port = 22, !.global_domains = dom,
                                !.subprotocols = sub]
         IN  \/ tin = [d |-> r, newResource |-> TRUE, prior |-> ZeroPrior]
             \/ \E old \in TDomainSets, pol \in TPolicies, port \in TPorts,
                   oldsub \in {sub, {}, {"SSH_X11"}} :
                  tin = [d |-> [r EXCEPT !.old_global_domains = old],
                         newResource |-> FALSE,
                         prior |-> [connection_policy |-> pol, port |-> port,
                                    subprotocols |-> oldsub]]

\* prepareDeviceServiceJSON on the declared configuration
Translate ==
    /\ ~tout.done
    /\ LET j == prepareDeviceServiceJSON(tin.d, tin.newResource)
       IN  tout' = [tout EXCEPT !.done = TRUE, !.err = j.err,
                                !.json = [ZeroJSON EXCEPT
                                            !.service_name = j.json.service_name,
                                            !.protocol = j.json.protocol,
                                            !.connection_policy = j.json.connection_policy,
                                            !.port = j.json.port,
                                            !.global_domains = j.json.global_domains,
                                            !.subprotocols = j.json.subprotocols]]
    /\ UNCHANGED <<tin, dsVars, xVars, aVars, rVars>>

\* fillDeviceService on the payload
FillBack ==
    /\ tout.done /\ tout.err = NoErr /\ ~tout.filled
    /\ tout' = [tout EXCEPT !.filled = TRUE, !.back = fillDeviceService(ZeroD, tout.json)]
    /\ UNCHANGED <<tin, dsVars, xVars, aVars, rVars>>

NextTranslate == Translate \/ FillBack

SpecTranslate == InitTranslate /\ [][NextTranslate]_vars

----------------------------------------------------------------------------
(* The device service with its operations serialized: an operation starts on
   an instance when no operation is running on another *)

Serialized(p) == \A q \in Procs \ {p} : Idle(q)

NextSerial ==
    \E p \in Procs :
        /\ Serialized(p)
        /\ \/ CreateStart(p)
           \/ CreatePre(p)
           \/ CreatePost(p)
           \/ CreateFind(p)
           \/ ReadAfter(p)
           \/ Read(p)
           \/ UpdateStart(p)
           \/ Delete(p)
           \/ ImportStart(p)
           \/ ImportRead(p)

SpecSerial == Init /\ [][NextSerial]_vars

----------------------------------------------------------------------------
(* Two device services of different natural keys, their operations
   interleaved: p1 declares svcA and p2 declares svcB, on the same device *)

ServiceB0 == [id |-> "0b", device_id |-> "dev1", service_name |-> "svcB",
              protocol |-> "SSH", connection_policy |-> "pol", port |-> 22,
              global_domains |-> {}, subprotocols |-> {}]

\* each of the two services is on the remote and in the state, or is not
InitPair ==
    /\ bastionAPIVersion \in defaultVersionsValid
    /\ declared = [p \in Procs |-> IF p = "p1" THEN "svcA" ELSE "svcB"]
    /\ \E a, b \in BOOLEAN :
         /\ services = (IF a THEN {Service0} ELSE {}) \cup (IF b THEN {ServiceB0} ELSE {})
         /\ d = [p \in Procs |-> IF a /\ p = "p1" THEN Tracked(Service0)
                                 ELSE IF b /\ p = "p2" THEN Tracked(ServiceB0)
                                 ELSE ZeroD]
    /\ nextId = 1
    /\ op = [p \in Procs |-> "none"]
    /\ pc = [p \in Procs |-> "done"]
    /\ ret = [p \in Procs |-> NoErr]
    /\ calls = [p \in Procs |-> <<>>]
    /\ loc = [p \in Procs |-> ZeroLoc]
    /\ nops = 0
    /\ XInit
    /\ AInit
    /\ RInit
    /\ TInit

SpecPair == InitPair /\ [][Next]_vars

----------------------------------------------------------------------------
(* The authorization alone *)

NextAuth ==
    \/ ACreateStart
    \/ ACreatePost
    \/ ACreateFind
    \/ AReadAfter
    \/ ARead
    \/ AUpdateStart
    \/ ADelete

SpecAuth == InitX509 /\ [][NextAuth]_vars

----------------------------------------------------------------------------
(* The release script alone *)

NextRelease ==
    \/ ParseArgument
    \/ Parsed
    \/ check_git_status
    \/ check_branch
    \/ NextVersion
    \/ DryRun
    \/ Confirm
    \/ update_dependencies
    \/ RunLint
    \/ RunUnitTests
    \/ RunBuild
    \/ Commit
    \/ CreateTag
    \/ ReleaseNotes

InitRelease ==
    /\ bastionAPIVersion \in defaultVersionsValid
    /\ OneKey
    /\ services = {}
    /\ DSInit
    /\ XInit
    /\ AInit
    /\ TInit
    /\ Started

SpecRelease == InitRelease /\ [][NextRelease]_vars

----------------------------------------------------------------------------
(* The claims *)

Last(l) == l[Len(l)]

\* an answered request that listed records
Listing(c) == c.what = "search" /\ ~c.err /\ c.code = StatusOK /\ c.kind = "list"

(* C1: Delete is idempotent.  A Delete whose DELETE request is answered 404
   returns without error, for a device service and for the X509 configuration. *)
C1_DeleteIdempotent ==
    /\ \A p \in Procs :
         (op[p] = "Delete" /\ pc[p] = "done" /\ calls[p] # <<>>
            /\ ~calls[p][1].err /\ calls[p][1].code = StatusNotFound)
         => ret[p] = NoErr
    /\ \A p \in XProcs :
         (xop[p] = "Delete" /\ xpc[p] = "done" /\ xcalls[p] # <<>>
            /\ ~xcalls[p][1].err /\ xcalls[p][1].code = StatusNotFound)
         => xret[p] = NoErr

(* C2: with an API version outside the supported set, every device-service
   operation (Create, Read, Update, Delete, Import) returns the version error
   and issues no remote request. *)
C2_VersionGate ==
    bastionAPIVersion \notin defaultVersionsValid
    => \A p \in Procs :
         /\ pc[p] = "done"
         /\ calls[p] = <<>>
         /\ op[p] # "none" => ret[p].kind = "version"

C2_Witness ==
    /\ bastionAPIVersion \notin defaultVersionsValid
    /\ \E p \in Procs : op[p] = "Update" /\ pc[p] = "done" /\ ret[p].kind = "version"

(* C3: a filtered listing with more than one match makes identity resolution
   fail with an error: the operation ends there, with an error that is not a
   report of 'not found', and no match is taken as the identity. *)
C3_AmbiguousMatchFails ==
    \A p \in Procs : \A i \in 1..Len(calls[p]) :
        (Listing(calls[p][i]) /\ Len(calls[p][i].ids) > 1)
        => /\ i = Len(calls[p])
           /\ pc[p] = "done"
           /\ ret[p] # NoErr
           /\ ret[p].kind \notin {"notfound_after_post", "import_notfound"}
           /\ d[p].id = ""

(* C4: a Create whose pre-create search lists one or more records with the
   declared key fails with 'already exists' and sends no POST. *)
C4_CreateExisting ==
    \A p \in Procs :
        (op[p] = "Create" /\ Len(calls[p]) >= 2 /\ Listing(calls[p][2])
           /\ Len(calls[p][2].ids) >= 1)
        => /\ pc[p] = "done"
           /\ ret[p].kind = "exists"
           /\ Len(calls[p]) = 2

(* C5: after the POST of a Create succeeded, the post-create search decides:
   exactly one match makes that match's id the tracked identity (which only a
   404 of the read that follows clears again); no match makes Create fail with
   'not found after POST', the tracked identity empty. *)
C5_IdentityAfterCreate ==
    \A p \in Procs :
        (op[p] = "Create" /\ Len(calls[p]) >= 4 /\ Listing(calls[p][4]))
        => LET ids == calls[p][4].ids
           IN  /\ Len(ids) = 1 /\ Len(calls[p]) = 4
                  => pc[p] = "read" /\ d[p].id = ids[1]
               /\ Len(ids) = 1 /\ Len(calls[p]) > 4
                  => \/ d[p].id = ids[1]
                     \/ d[p].id = "" /\ Last(calls[p]).code = StatusNotFound
               /\ Len(ids) = 0
                  => /\ pc[p] = "done"
                     /\ ret[p].kind = "notfound_after_post"
                     /\ d[p].id = ""
                     /\ Len(calls[p]) = 4

C5_Witness ==
    \E p \in Procs :
        /\ op[p] = "Create" /\ pc[p] = "done" /\ ret[p] = NoErr
        /\ Len(calls[p]) = 5 /\ Len(calls[p][4].ids) = 1
        /\ d[p].id = calls[p][4].ids[1]

\* the other case of C5: no match after the POST
C5_NoMatchReached ==
    \E p \in Procs :
        /\ op[p] = "Create" /\ Len(calls[p]) = 4 /\ Listing(calls[p][4])
        /\ Len(calls[p][4].ids) = 0

(* C6: payload translation rejects a sub-protocol set exactly when it is not
   empty and the protocol is SSH with a token outside the SSH allow-list, or
   RDP with a token outside the RDP allow-list, or any other protocol; so that
   an RDP-only token is rejected for SSH, an SSH-only token for RDP, and the
   empty set is accepted for every protocol. *)
C6_Rejected(r) ==
    /\ r.subprotocols # {}
    /\ \/ r.protocol = "SSH" /\ \E t \in r.subprotocols : t \notin sshSubProtocolsValid
       \/ r.protocol = "RDP" /\ \E t \in r.subprotocols : t \notin rdpSubProtocolsValid
       \/ r.protocol \notin {"SSH", "RDP"}

C6_SubProtocolEnum ==
    tout.done
    => /\ (tout.err # NoErr) <=> C6_Rejected(tin.d)
       /\ tout.err # NoErr => tout.err.kind = "config"
       /\ (tin.d.protocol = "SSH" /\ tin.d.subprotocols \cap rdpSubProtocolsValid # {})
          => tout.err # NoErr
       /\ (tin.d.protocol = "RDP" /\ tin.d.subprotocols \cap sshSubProtocolsValid # {})
          => tout.err # NoErr
       /\ tin.d.subprotocols = {} => tout.err = NoErr

C6_Witness ==
    /\ tout.done
    /\ tin.d.protocol = "SSH"
    /\ tin.d.subprotocols = {"SSH_X11", "RDP_DRIVE"}
    /\ tout.err.kind = "config"

(* C7: with a sub-protocol set that is invalid for the declared protocol,
   Create and Update fail with the configuration error before any remote
   request: no request is issued while the declared set is invalid, and the
   configuration error is returned with no request issued. *)
C7_ConfigErrorBeforeAnyCall ==
    \A p \in Procs :
        op[p] \in {"Create", "Update"}
        => /\ pc[p] # "done" => prepareDeviceServiceJSON(d[p], op[p] = "Create").err = NoErr
           /\ (pc[p] = "done" /\ ret[p].kind = "config") => calls[p] = <<>>

----------------------------------------------------------------------------
(* The claims on the X509 configuration *)

\* t is a part of s
C8_Within(t, s) ==
    \E i \in 1..(Len(s) + 1) : \E j \in (i - 1)..Len(s) : SubSeq(s, i, j) = t

\* the declared certificate v, when there is one, is found in the observed field
C8_Found(v, observed) == v # NoCert => C8_Within(CNTag \o v.cn, observed)

\* resourceConfigX509Read ran on p to its end and returned nil
C8_ReadReturned(p) ==
    /\ xpc[p] = "done" /\ xret[p] = NoErr /\ xcalls[p] # <<>>
    /\ Last(xcalls[p]).method = "GET"

(* C8: a Read of the X509 configuration that observed a record other than the
   default keeps the tracked identity if and only if each of ca_certificate
   and server_public_key that is declared non-empty is found in the observed
   field as "/CN=" followed by its subject common name. *)
C8_SemanticDrift ==
    \A p \in XProcs :
        (C8_ReadReturned(p) /\ ~xloc[p].cfg.default)
        => /\ xloc[p].id0 # ""
           /\ (xd[p].id = xloc[p].id0)
              <=> /\ C8_Found(xloc[p].ca, xloc[p].cfg.ca_certificate)
                  /\ C8_Found(xloc[p].pub, xloc[p].cfg.server_public_key)
           /\ xd[p].id \in {"", xloc[p].id0}

\* example.com declared and observed: still declared
C8_Witness ==
    \E p \in XProcs :
        /\ xop[p] = "Read" /\ C8_ReadReturned(p) /\ ~xloc[p].cfg.default
        /\ xloc[p].pub = Cert(<<"example", ".com">>)
        /\ xloc[p].cfg.server_public_key = <<"/O=wallix", "/CN=", "example", ".com">>
        /\ xd[p].id = "x509Config"

\* other.com declared, example.com observed: no longer declared
C8_DriftReached ==
    \E p \in XProcs :
        /\ xop[p] = "Read" /\ C8_ReadReturned(p) /\ ~xloc[p].cfg.default
        /\ xloc[p].pub = Cert(<<"other", ".com">>)
        /\ xloc[p].cfg.server_public_key = <<"/O=wallix", "/CN=", "example", ".com">>
        /\ xd[p].id = ""

\* the declared certificate v parses and is not found in the observed field
C9_Mismatch(v, observed) == v.der /\ ~C8_Within(CNTag \o v.cn, observed)

\* the Read that set the locals l and logged the request c was answered with
\* the default configuration, or with one in which a declared certificate is
\* not found
C9_Drift(l, c) ==
    /\ ~c.err /\ c.code = StatusOK /\ c.kind = "object"
    /\ \/ l.cfg.default
       \/ C9_Mismatch(l.ca, l.cfg.ca_certificate)
       \/ /\ l.ca = NoCert \/ (l.ca.der /\ ~C9_Mismatch(l.ca, l.cfg.ca_certificate))
          /\ C9_Mismatch(l.pub, l.cfg.server_public_key)

\* what a step of resourceConfigX509Read on p does
C9_X509ReadStep(p) ==
    /\ x509' = x509
    /\ xcalls'[p] # <<>>
    /\ Last(xcalls'[p]).method = "GET"
    /\ xcalls'[p] \in {<<Last(xcalls'[p])>>, xcalls[p] \o <<Last(xcalls'[p])>>}
    /\ C9_Drift(xloc'[p], Last(xcalls'[p])) => xd'[p].id = "" /\ xret'[p] = NoErr

\* what a step of resourceDeviceServiceRead on p does
C9_DeviceServiceReadStep(p) ==
    /\ services' = services
    /\ nextId' = nextId
    /\ \/ calls'[p] \in {<<>>, calls[p]}
       \/ /\ Last(calls'[p]).method = "GET"
          /\ calls'[p] \in {<<Last(calls'[p])>>, calls[p] \o <<Last(calls'[p])>>}

(* C9: Read never issues a mutating request.  Every step of a Read, of the
   X509 configuration or of a device service, sends GET requests only and
   leaves the remote as it was; when the remote reports the default
   configuration or a declared common name is not found, the Read of the X509
   configuration clears the tracked identity and returns without error. *)
C9_ReadNeverMutates ==
    [][/\ \A p \in XProcs : (XRead(p) \/ XReadAfter(p)) => C9_X509ReadStep(p)
       /\ \A p \in Procs : (Read(p) \/ ReadAfter(p)) => C9_DeviceServiceReadStep(p)]_vars

\* a Read found the declared common name gone: the identity is cleared and
\* the remote still holds its configuration
C9_Witness ==
    \E p \in XProcs :
        /\ xop[p] = "Read" /\ xpc[p] = "done" /\ xret[p] = NoErr
        /\ Len(xcalls[p]) = 1 /\ xcalls[p][1].method = "GET"
        /\ xloc[p].id0 # "" /\ xd[p].id = ""
        /\ ~xloc[p].cfg.default
        /\ C9_Drift(xloc[p], xcalls[p][1])
        /\ ~x509.default /\ x509 = xloc[p].cfg

\* resourceDeviceServiceRead ran on p to its end, its GET answered
C10_ReadAnswered(p) ==
    /\ op[p] \in {"Read", "Create", "Update"} /\ pc[p] = "done" /\ calls[p] # <<>>
    /\ Last(calls[p]).method = "GET" /\ Last(calls[p]).what = "service"
    /\ ~Last(calls[p]).err

(* C10: a Read of a device service whose GET by id is answered 404 clears the
   tracked identity and returns no error; a Read that is answered with the
   record leaves the tracked identity as it was and sets the six fields of the
   declared record to the observed ones. *)
C10_ReadNotFoundAndFound ==
    \A p \in Procs :
        C10_ReadAnswered(p)
        => /\ Last(calls[p]).code = StatusNotFound => d[p].id = "" /\ ret[p] = NoErr
           /\ (Last(calls[p]).code = StatusOK /\ Last(calls[p]).kind = "object")
              => /\ ret[p] = NoErr
                 /\ d[p].id # "" /\ d[p].id = loc[p].id0
                 /\ d[p].service_name = loc[p].cfg.service_name
                 /\ d[p].connection_policy = loc[p].cfg.connection_policy
                 /\ d[p].port = loc[p].cfg.port
                 /\ d[p].protocol = loc[p].cfg.protocol
                 /\ d[p].global_domains = Range(loc[p].cfg.global_domains.val)
                 /\ d[p].subprotocols = Range(loc[p].cfg.subprotocols.val)

C10_Witness ==
    \E p \in Procs :
        /\ op[p] = "Read" /\ C10_ReadAnswered(p)
        /\ Last(calls[p]).code = StatusNotFound
        /\ loc[p].id0 # "" /\ d[p].id = "" /\ ret[p] = NoErr

\* the other case of C10: the record is found
C10_FoundReached ==
    \E p \in Procs :
        /\ op[p] = "Read" /\ C10_ReadAnswered(p)
        /\ Last(calls[p]).code = StatusOK /\ Last(calls[p]).kind = "object"
        /\ d[p].id = loc[p].id0 /\ d[p].id # ""

----------------------------------------------------------------------------
(* The claims on Import *)

\* the number of segments the separator "/" cuts the id arg into
C11_Segments(arg) == Cardinality({i \in 1..Len(arg) : arg[i] = "/"}) + 1

\* Import ran on p, past the version gate, on the id loc[p].arg
C11_Imported(p) == op[p] = "Import" /\ loc[p].arg # <<>>

(* C11: Import splits the id it is given on "/".  With two segments it sends
   the search for parent = first segment and natural key = second segment, so
   that what it then reads carries that device_id and service_name; with any
   other number of segments it fails with the error naming the format
   <device_id>/<service_name> and sends no request. *)
C11_ImportSplit ==
    \A p \in Procs :
        C11_Imported(p)
        => /\ C11_Segments(loc[p].arg) # 2
              => /\ pc[p] = "done"
                 /\ ret[p].kind = "import_format" /\ ret[p].what = ImportFormat
                 /\ calls[p] = <<>>
                 /\ d[p].id = ""
           /\ C11_Segments(loc[p].arg) = 2
              => /\ calls[p] # <<>>
                 /\ calls[p][1].method = "GET" /\ calls[p][1].what = "search"
                 /\ Listing(calls[p][1]) => loc[p].dev = loc[p].arg[1]
                 /\ (pc[p] = "done" /\ ret[p] = NoErr /\ Last(calls[p]).code = StatusOK)
                    => /\ d[p].device_id = loc[p].arg[1]
                       /\ d[p].service_name = loc[p].arg[3]

C11_Witness ==
    \E p \in Procs :
        /\ C11_Imported(p) /\ loc[p].arg = <<"dev1", "/", "svcA", "/", "x">>
        /\ pc[p] = "done" /\ ret[p].kind = "import_format" /\ calls[p] = <<>>

\* the other cases of C11: no separator, and two segments
C11_NoSeparatorReached ==
    \E p \in Procs :
        /\ C11_Imported(p) /\ loc[p].arg = <<"dev1">>
        /\ pc[p] = "done" /\ ret[p].kind = "import_format"

(* C12: Import returns without error only if the search found the service,
   and then the tracked identity is the id the search resolved and device_id
   is the first segment of the id given; when the search lists no match,
   Import fails with the error naming the format and sets no identity. *)
C12_ImportResolves ==
    \A p \in Procs :
        (C11_Imported(p) /\ pc[p] = "done")
        => /\ ret[p] = NoErr
              => /\ Len(calls[p]) = 2
                 /\ Listing(calls[p][1]) /\ Len(calls[p][1].ids) = 1
                 /\ d[p].id = calls[p][1].ids[1] /\ d[p].id # ""
                 /\ d[p].device_id = loc[p].arg[1]
           /\ ret[p] # NoErr => d[p].id = ""
           /\ (calls[p] # <<>> /\ Listing(calls[p][1]) /\ Len(calls[p][1].ids) = 0)
              => /\ ret[p].kind = "import_notfound" /\ ret[p].what = ImportFormat
                 /\ Len(calls[p]) = 1

C12_Witness ==
    \E p \in Procs :
        /\ C11_Imported(p) /\ pc[p] = "done" /\ ret[p] = NoErr
        /\ d[p].id # "" /\ d[p].device_id = "dev1" /\ d[p].service_name = "svcA"

\* the other case of C12: no match
C12_NoMatchReached ==
    \E p \in Procs :
        /\ C11_Imported(p) /\ pc[p] = "done" /\ ret[p].kind = "import_notfound"
        /\ calls[p][1].ids = <<>>

----------------------------------------------------------------------------
(* The claims on the payload *)

\* the operator changed the attribute f in this pass
C13_Changed(f) ==
    CASE f = "connection_policy" -> tin.d.connection_policy # tin.prior.connection_policy
      [] f = "port" -> tin.d.port # tin.prior.port
      [] f = "global_domains" -> tin.d.global_domains # tin.d.old_global_domains
      [] f = "subprotocols" -> tin.d.subprotocols # tin.prior.subprotocols

(* C13: the payload of an update holds connection_policy, port,
   global_domains or subprotocols only if the operator changed that attribute
   in this pass. *)
C13_OnlyChangedFields ==
    (tout.done /\ tout.err = NoErr /\ ~tin.newResource)
    => \A f \in {"connection_policy", "port", "global_domains", "subprotocols"} :
         f \in Marshalled(tout.json) => C13_Changed(f)

(* C14: a declared configuration that passes the checks of the translator,
   translated to the payload of a creation and back, has the same
   service_name, protocol, connection_policy, port, global_domains and
   subprotocols, the last two compared as sets. *)
C14_RoundTrip ==
    (tout.filled /\ tin.newResource)
    => /\ tout.back.service_name = tin.d.service_name
       /\ tout.back.protocol = tin.d.protocol
       /\ tout.back.connection_policy = tin.d.connection_policy
       /\ tout.back.port = tin.d.port
       /\ tout.back.global_domains = tin.d.global_domains
       /\ tout.back.subprotocols = tin.d.subprotocols

C14_Witness ==
    /\ tout.filled /\ tin.newResource
    /\ tin.d.protocol = "SSH"
    /\ tin.d.subprotocols = {"SSH_X11", "SSH_SCP_UP"}
    /\ tin.d.global_domains = {"dom"}
    /\ tout.back.subprotocols = tin.d.subprotocols
    /\ tout.back.global_domains = tin.d.global_domains

----------------------------------------------------------------------------
(* The claims on the records of the remote *)

\* the remote holds at most one device service per (device_id, service_name)
C15_OnePerKey ==
    \A r1, r2 \in services :
        (r1.device_id = r2.device_id /\ r1.service_name = r2.service_name) => r1 = r2

\* the record a tracked identity names
C15_Named(p) == {r \in services : r.device_id = d[p].device_id /\ r.id = d[p].id}

\* the state holds an identity for p, no operation running on it
C15_Tracks(p) == Idle(p) /\ d[p].id # ""

(* C15, as stated: with the operations serialized, the remote holds at most
   one device service per (device_id, service_name), and every non-empty
   tracked identity is the id of the record with its own natural key. *)
C15_UniqueAndTracked ==
    /\ C15_OnePerKey
    /\ \A p \in Procs :
         C15_Tracks(p)
         => \E r \in C15_Named(p) : r.service_name = d[p].service_name

(* C15, amended: with the operations serialized, the remote holds at most one
   device service per (device_id, service_name), and every non-empty tracked
   identity that still names a record of the remote names the one with its own
   natural key; an identity tracked for a record that is gone names none. *)
C15_UniqueAndNotMisnamed ==
    /\ C15_OnePerKey
    /\ \A p \in Procs :
         C15_Tracks(p)
         => \A r \in C15_Named(p) : r.service_name = d[p].service_name

\* a Create of a key the remote holds failed, the record tracked by the other
\* instance
C15_Witness ==
    \E p, q \in Procs :
        /\ op[p] = "Create" /\ pc[p] = "done" /\ ret[p].kind = "exists"
        /\ C15_Tracks(q) /\ C15_Named(q) # {}
        /\ Cardinality(services) = 1

\* an identity tracked for a record that is gone
C15_StaleReached ==
    \E p \in Procs : C15_Tracks(p) /\ C15_Named(p) = {}

----------------------------------------------------------------------------
(* The claims on instances of different natural keys *)

\* a step of an operation on p
C16_Step(p) ==
    \/ CreateStart(p) \/ CreatePre(p) \/ CreatePost(p) \/ CreateFind(p)
    \/ ReadAfter(p) \/ Read(p) \/ UpdateStart(p) \/ Delete(p)
    \/ ImportStart(p) \/ ImportRead(p)

\* the records of S with the natural key p declares
C16_Own(p, S) == {r \in S : r.service_name = declared[p]}

\* the step of p leaves the other instances and the records of their keys alone
C16_WritesOwn(p) ==
    \A q \in Procs \ {p} :
        /\ C16_Own(q, services') = C16_Own(q, services)
        /\ d'[q] = d[q]
        /\ pc'[q] = pc[q]

\* the request the step of p sent is answered as by a remote that holds the
\* records of p's key only: a listing lists those, a request by id finds the
\* record among those or is answered 404 (the lookup of the parent device reads
\* no device service)
C16_ReadsOwn(p) ==
    (calls'[p] # calls[p] /\ calls'[p] # <<>>)
    => LET c == Last(calls'[p])
           id == IF pc[p] = "i_read" THEN loc[p].id ELSE d[p].id
       IN  /\ c.what \in {"search", "service"}
              => \A i \in 1..Len(c.ids) : \E r \in C16_Own(p, services) : r.id = c.ids[i]
           /\ Listing(c) => Range(c.ids) = {r.id : r \in C16_Own(p, services)}
           /\ (c.what = "service" /\ c.method # "POST" /\ ~c.err)
              => /\ c.code = StatusNotFound
                    => ~\E r \in C16_Own(p, services) : r.id = id
                 /\ (c.code \in SuccessCodes /\ (c.method = "GET" => c.kind = "object"))
                    => \E r \in C16_Own(p, services) : r.id = id

(* C16: operations on device services of different natural keys are
   independent.  Every step of one reads and writes the records of its own key
   only, and leaves the tracked identity of the other as it is; so the records
   and the tracked identities at the end of any interleaving are those of the
   two operations run one after the other. *)
C16_Independent ==
    [][\A p \in Procs : (C16_WritesOwn(p) /\ C16_ReadsOwn(p)) \/ ~C16_Step(p)]_vars

\* the two Creates run at the same time, each with its own identity
C16_Witness ==
    /\ \A p \in Procs : op[p] = "Create" /\ pc[p] = "read" /\ d[p].id # ""
    /\ d["p1"].id # d["p2"].id
    /\ \A p \in Procs : \E r \in C16_Own(p, services) : r.id = d[p].id

----------------------------------------------------------------------------
(* The claims on failed requests *)

\* the status codes with which the request c is not rejected: 200 for a
\* listing, 200 and 404 for a read by id, 200 and 204 for a mutating request
C17_Accepted(c) ==
    IF c.method # "GET" THEN SuccessCodes
    ELSE IF c.what = "search" THEN {StatusOK}
    ELSE {StatusOK, StatusNotFound}

\* the request c was answered, with a status code that rejects it
C17_Rejected(c) == ~c.err /\ c.code \notin C17_Accepted(c)

(* C17: a response whose status code is neither a success code nor a 404 on a
   read by id ends the operation with an error that carries that status code
   and the body of the response as it came; no operation returns without
   error after one. *)
C17_RejectionSurfaced ==
    /\ \A p \in Procs : \A i \in 1..Len(calls[p]) :
         C17_Rejected(calls[p][i])
         => /\ i = Len(calls[p]) /\ pc[p] = "done"
            /\ ret[p].kind = "api"
            /\ ret[p].code = calls[p][i].code
            /\ ret[p].text = calls[p][i].text
    /\ \A p \in XProcs : \A i \in 1..Len(xcalls[p]) :
         C17_Rejected(xcalls[p][i])
         => /\ i = Len(xcalls[p]) /\ xpc[p] = "done"
            /\ xret[p].kind = "api"
            /\ xret[p].code = xcalls[p][i].code
            /\ xret[p].text = xcalls[p][i].text

\* a POST of Create rejected with 500 and its body
C17_Witness ==
    \E p \in Procs :
        /\ op[p] = "Create" /\ Len(calls[p]) = 3 /\ calls[p][3].method = "POST"
        /\ calls[p][3].code = 500 /\ calls[p][3].text = "boom"
        /\ ret[p] = ApiErr(500, "boom")

\* the same on the X509 configuration
C17_X509Reached ==
    \E p \in XProcs :
        /\ xop[p] = "Create" /\ Len(xcalls[p]) = 1 /\ C17_Rejected(xcalls[p][1])
        /\ xret[p] = ApiErr(500, "boom")

\* the request c failed: no answer, or an answer that rejects it
C18_Failed(c) == c.err \/ C17_Rejected(c)

\* the requests of an operation, in the order in which it sends them
C18_Requests(name) ==
    CASE name = "Create" -> <<Request("GET", "device"), Request("GET", "search"),
                              Request("POST", "service"), Request("GET", "search"),
                              Request("GET", "service")>>
      [] name = "Read" -> <<Request("GET", "service")>>
      [] name = "Update" -> <<Request("PUT", "service"), Request("GET", "service")>>
      [] name = "Delete" -> <<Request("DELETE", "service")>>
      [] name = "Import" -> <<Request("GET", "search"), Request("GET", "service")>>
      [] OTHER -> <<>>

C18_X509Requests(name) ==
    CASE name = "Create" -> <<Request("POST", "x509"), Request("GET", "x509")>>
      [] name = "Read" -> <<Request("GET", "x509")>>
      [] name = "Update" -> <<Request("PUT", "x509"), Request("GET", "x509")>>
      [] name = "Delete" -> <<Request("DELETE", "x509")>>
      [] OTHER -> <<>>

\* the log l is the beginning of the requests rs, each sent once
C18_Once(l, rs) ==
    /\ Len(l) <= Len(rs)
    /\ \A i \in 1..Len(l) : l[i].method = rs[i].method /\ l[i].what = rs[i].what

(* C18: no operation retries.  An operation sends the requests of its
   sequence once each and in order, and the first request that fails, by a
   transport error or a rejecting status code, is its last: it returns the
   error of that request. *)
C18_NoRetry ==
    /\ \A p \in Procs :
         /\ C18_Once(calls[p], C18_Requests(op[p]))
         /\ \A i \in 1..Len(calls[p]) :
              C18_Failed(calls[p][i])
              => /\ i = Len(calls[p]) /\ pc[p] = "done"
                 /\ ret[p] = IF calls[p][i].err THEN Err("transport", "")
                             ELSE ApiErr(calls[p][i].code, calls[p][i].text)
    /\ \A p \in XProcs :
         /\ C18_Once(xcalls[p], C18_X509Requests(xop[p]))
         /\ \A i \in 1..Len(xcalls[p]) :
              C18_Failed(xcalls[p][i])
              => /\ i = Len(xcalls[p]) /\ xpc[p] = "done"
                 /\ xret[p] = IF xcalls[p][i].err THEN Err("transport", "")
                              ELSE ApiErr(xcalls[p][i].code, xcalls[p][i].text)

\* the PUT of an X509 Update failed and nothing was sent after it
C18_Witness ==
    \E p \in XProcs :
        /\ xop[p] = "Update" /\ xpc[p] = "done"
        /\ Len(xcalls[p]) = 1 /\ C18_Failed(xcalls[p][1])
        /\ xret[p] # NoErr

\* the same for the POST of a device-service Create
C18_CreateReached ==
    \E p \in Procs :
        /\ op[p] = "Create" /\ pc[p] = "done"
        /\ Len(calls[p]) = 3 /\ calls[p][3].err /\ ret[p] = Err("transport", "")

(* C19: an Update of a device service whose PUT is answered 404 fails with
   the error of that answer, sends no read after it, and leaves the tracked
   identity as it was. *)
C19_UpdateNotFound ==
    \A p \in Procs :
        (op[p] = "Update" /\ calls[p] # <<>> /\ calls[p][1].method = "PUT"
           /\ ~calls[p][1].err /\ calls[p][1].code = StatusNotFound)
        => /\ pc[p] = "done"
           /\ Len(calls[p]) = 1
           /\ ret[p] = ApiErr(StatusNotFound, calls[p][1].text)
           /\ d[p].id # "" /\ d[p].id = loc[p].id0

C19_Witness ==
    \E p \in Procs :
        /\ op[p] = "Update" /\ pc[p] = "done" /\ Len(calls[p]) = 1
        /\ calls[p][1].method = "PUT" /\ calls[p][1].code = StatusNotFound
        /\ ret[p].kind = "api" /\ d[p].id = loc[p].id0 /\ d[p].id # ""

(* C20: after a Create that returned without error the tracked identity is
   not empty: on a device service it is the id of a remote record with the
   declared device and service name, on the X509 configuration it is the
   static id. *)
C20_CreatedIsPresent ==
    /\ \A p \in Procs :
         (op[p] = "Create" /\ pc[p] = "done" /\ ret[p] = NoErr)
         => /\ d[p].id # ""
            /\ d[p].id = calls[p][4].ids[1]
    /\ \A p \in XProcs :
         (xop[p] = "Create" /\ xpc[p] = "done" /\ xret[p] = NoErr)
         => xd[p].id = "x509Config"

\* the part of C20 on the X509 configuration alone
C20_X509Present ==
    \A p \in XProcs :
        (xop[p] = "Create" /\ xpc[p] = "done" /\ xret[p] = NoErr)
        => xd[p].id = "x509Config"

\* the part of C20 on the device service, but for a read answered 404
C20_PresentUnlessGone ==
    \A p \in Procs :
        (op[p] = "Create" /\ pc[p] = "done" /\ ret[p] = NoErr)
        => \/ d[p].id # "" /\ d[p].id = calls[p][4].ids[1]
           \/ d[p].id = "" /\ Last(calls[p]).code = StatusNotFound

----------------------------------------------------------------------------
(* The claims on the message of the version gate *)

(* C21: the version error of every device-service operation, Update included,
   names the device-service resource kind and the version of the connected
   remote. *)
C21_GateNamesKind ==
    \A p \in Procs :
        (op[p] # "none" /\ ret[p].kind = "version")
        => /\ ret[p].what = "wallix-bastion_device_service"
           /\ ret[p].text = bastionAPIVersion

\* the same of the operations other than Update
C21_GateNamesKindButUpdate ==
    \A p \in Procs :
        (op[p] \notin {"none", "Update"} /\ ret[p].kind = "version")
        => /\ ret[p].what = "wallix-bastion_device_service"
           /\ ret[p].text = bastionAPIVersion

----------------------------------------------------------------------------
(* The claims on the authorization *)

(* C22: after a Create or an Update of an authorization declared with
   authorize_session_sharing = true and session_sharing_mode = M that returned
   without error, the state read back holds authorize_session_sharing = true
   and session_sharing_mode = M, and so does the remote record. *)
C22_SharingConverges ==
    (aop \in {"Create", "Update"} /\ apc = "done" /\ aret = NoErr
       /\ aloc.decl.authorize_session_sharing)
    => /\ ad.id # ""
       /\ ad.cfg.authorize_session_sharing
       /\ ad.cfg.session_sharing_mode = aloc.decl.session_sharing_mode
       /\ \E r \in authorizations :
            /\ r.id = ad.id
            /\ r.cfg.authorize_session_sharing
            /\ r.cfg.session_sharing_mode = aloc.decl.session_sharing_mode

\* an Update from view_only to view_control has converged
C22_Witness ==
    /\ aop = "Update" /\ apc = "done" /\ aret = NoErr
    /\ aloc.prior.authorize_session_sharing
    /\ aloc.prior.session_sharing_mode = "view_only"
    /\ aloc.decl.authorize_session_sharing
    /\ ad.cfg.session_sharing_mode = "view_control"

\* the same of a Create in mode view_only
C22_CreateReached ==
    /\ aop = "Create" /\ apc = "done" /\ aret = NoErr
    /\ ad.cfg.authorize_session_sharing
    /\ ad.cfg.session_sharing_mode = "view_only"

\* the fields an Update changes
C23_Changed == {f \in AuthFields : aloc.decl[f] # aloc.prior[f]}

\* the PUT of the Update was sent and accepted
C23_PutAccepted ==
    /\ acalls # <<>> /\ acalls[1].method = "PUT"
    /\ ~acalls[1].err /\ acalls[1].code \in {StatusOK, StatusNoContent}

(* C23: an Update of an authorization leaves every declared approver group
   in force on the remote, in the declared order: when the approvers are not
   among the fields that changed, whatever the answer to the PUT, and when
   they are, once the PUT was accepted. *)
C23_ApproversKept ==
    (aop = "Update" /\ ("approvers" \notin C23_Changed \/ C23_PutAccepted))
    => \E r \in authorizations :
         /\ r.id = ad.id
         /\ r.cfg.approvers = aloc.decl.approvers

\* an accepted Update that changed the quorum and the timeout of two approvers
C23_Witness ==
    /\ aop = "Update" /\ apc = "done" /\ aret = NoErr
    /\ C23_Changed = {"active_quorum", "approval_timeout"}
    /\ Len(aloc.decl.approvers) = 2
    /\ acalls[1].fields = C23_Changed

----------------------------------------------------------------------------
(* The claims on the release script *)

TypeFlags == {<<"--major">>, <<"--minor">>, <<"--patch">>}

\* v is of the form vX.Y.Z, X, Y and Z numerals
VersionForm(v) ==
    LET dots == {i \in 1..Len(v) : v[i] = "."}
    IN  /\ Len(v) >= 6 /\ v[1] = "v"
        /\ \A i \in 2..Len(v) : v[i] = "." \/ v[i] \in Range(DigitChars)
        /\ Cardinality(dots) = 2
        /\ 2 \notin dots /\ Len(v) \notin dots
        /\ \A i \in dots : (i + 1) \notin dots

(* C24: the next version the script computes from the current tag vX.Y.Z is
   vX.Y.(Z+1) for a patch release, vX.(Y+1).0 for a minor release and
   v(X+1).0.0 for a major release, and the release is a patch release when the
   command line names no type. *)
C24_Increment ==
    /\ (rver # <<>> /\ ropt.force_version = <<>> /\ VersionForm(rtag))
       => \E x \in 0..1, y \in 9..14, z \in 7..9 :
            /\ rtag = Tag(x, y, z)
            /\ rver = (IF ropt.release_type = "major" THEN Tag(x + 1, 0, 0)
                       ELSE IF ropt.release_type = "minor" THEN Tag(x, y + 1, 0)
                       ELSE Tag(x, y, z + 1))
            /\ ropt.release_type \in {"major", "minor", "patch"}
    /\ Range(rargv) \cap TypeFlags = {} => ropt.release_type = "patch"

\* a minor release after v1.9.9
C24_Witness ==
    /\ rtag = Tag(1, 9, 9) /\ ropt.release_type = "minor"
    /\ rver = <<"v", "1", ".", "1", "0", ".", "0">>

\* a patch release by default
C24_DefaultReached ==
    /\ rargv = <<>> /\ rtag = Tag(0, 14, 7)
    /\ rver = <<"v", "0", ".", "1", "4", ".", "8">>

\* what changes the repository, the workspace or the remote, tried or done
Changing ==
    {"deps", "deps_failed", "lint", "lint_failed", "test", "test_failed",
     "build", "build_failed", "commit", "commit_failed", "tag", "tag_failed",
     "push", "push_failed"}

\* the questions to the operator
Asking == {"asked_branch", "confirmed", "refused", "asked_push"}

(* C25, as claimed: with --dry-run among the options of a command line that
   it parsed to the end, the script changes nothing, asks nothing, and exits
   with 0 having printed the plan. *)
C25_DryRunChangesNothing ==
    (ropt.dry_run /\ rrest = <<>> /\ rpc = "exit")
    => /\ Range(rdone) \cap (Changing \cup Asking) = {}
       /\ rpushed = rtags
       /\ rexit = 0
       /\ "plan" \in Range(rdone)

(* C25, amended: once it has parsed --dry-run as an option the script changes
   nothing and asks nothing.  When every argument was parsed and the value of
   --version, if any, has the form vX.Y.Z, it exits with 0 having printed the
   plan; a run with the option that ends before that has printed nothing. *)
C25_DryRunPlansOnly ==
    /\ ropt.dry_run
       => Range(rdone) \cap (Changing \cup Asking) = {} /\ rpushed = rtags
    /\ (ropt.dry_run /\ rpc = "exit")
       => IF rrest = <<>>
             /\ (ropt.force_version = <<>> \/ ValidVersion(ropt.force_version))
          THEN rexit = 0 /\ rdone = <<"plan">>
          ELSE rdone = <<>>

C25_Witness ==
    /\ ropt.dry_run /\ rpc = "exit" /\ rexit = 0 /\ rdone = <<"plan">>
    /\ rtags \in TagSets /\ rpushed = rtags

\* --dry-run with a --version that has not the form vX.Y.Z
C25_InvalidVersionReached ==
    /\ ropt.dry_run /\ rpc = "exit" /\ rexit = 1 /\ rrest = <<>>
    /\ ropt.force_version = Tail(Tag(2, 0, 0))

(* C26: with DRY_RUN=true in the environment the script runs as a dry run,
   and with SKIP_TESTS=true it runs neither linter nor test nor build,
   whatever its command line. *)
C26_EnvironmentHonoured ==
    /\ renv["DRY_RUN"] = "true"
       => Range(rdone) \cap (Changing \cup Asking) = {} /\ rpushed = rtags
    /\ renv["SKIP_TESTS"] = "true"
       => Range(rdone) \cap {"lint", "lint_skipped", "lint_failed", "test",
                             "test_failed", "build", "build_failed"} = {}

\* e was done, and before the tag was created
C27_BeforeTag(e) ==
    \E i, j \in 1..Len(rdone) : i < j /\ rdone[i] = e /\ rdone[j] = "tag"

\* what ends the script before the tag
C27_Stops == {"dirty", "refused", "deps_failed", "lint_failed", "test_failed",
              "build_failed"}

C27_StoppedWithoutTag ==
    \A i \in 1..Len(rdone) :
        rdone[i] \in C27_Stops
        => /\ i = Len(rdone) /\ rpc = "exit"
           /\ "tag" \notin Range(rdone) /\ rpushed = rtags

(* C27, as claimed: the tag is created only after the working directory was
   found clean, the operator confirmed, the dependencies were updated and,
   unless --skip-tests was given, lint, tests and build succeeded; a failure
   or refusal at one of these steps ends the script without a tag. *)
C27_TagAfterChecks ==
    /\ "tag" \in Range(rdone)
       => /\ ~ropt.dry_run
          /\ C27_BeforeTag("clean") /\ C27_BeforeTag("confirmed") /\ C27_BeforeTag("deps")
          /\ ~ropt.skip_tests
             => C27_BeforeTag("lint") /\ C27_BeforeTag("test") /\ C27_BeforeTag("build")
    /\ C27_StoppedWithoutTag

(* C27, amended: as claimed, but lint may also have been left out because
   golangci-lint is not installed. *)
C27_TagAfterChecksRun ==
    /\ "tag" \in Range(rdone)
       => /\ ~ropt.dry_run
          /\ C27_BeforeTag("clean") /\ C27_BeforeTag("confirmed") /\ C27_BeforeTag("deps")
          /\ ~ropt.skip_tests
             => /\ C27_BeforeTag("lint") \/ C27_BeforeTag("lint_skipped")
                /\ C27_BeforeTag("test") /\ C27_BeforeTag("build")
    /\ C27_StoppedWithoutTag

\* a tag created after lint, tests and build
C27_Witness ==
    /\ "tag" \in Range(rdone) /\ ~ropt.skip_tests
    /\ C27_BeforeTag("lint") /\ C27_BeforeTag("test") /\ C27_BeforeTag("build")

\* a run that the unit tests ended
C27_FailureReached ==
    /\ rpc = "exit" /\ rexit = 1 /\ rdone # <<>> /\ Last(rdone) = "test_failed"

----------------------------------------------------------------------------
(* The claims on the course of Create and on what ends an operation *)

\* the i-th request of Create succeeded: the device was found, the listings
\* were answered, the POST was accepted, and the listing after it held the
\* one match
C28_Succeeded(c, i) ==
    CASE i = 1 -> ~c.err /\ c.code = StatusOK /\ c.kind = "object"
      [] i = 2 -> Listing(c)
      [] i = 3 -> ~c.err /\ c.code \in SuccessCodes
      [] i = 4 -> Listing(c) /\ Len(c.ids) = 1
      [] OTHER -> TRUE

(* C28: the requests of a Create of a device service are, in this order, the
   lookup of the parent device, the pre-create search, one POST, the
   post-create search and the read by opaque id; each is sent only if the one
   before succeeded, and the tracked identity is set only once the
   post-create search has returned a match, to the id of that match. *)
C28_CreateOrder ==
    \A p \in Procs :
        op[p] = "Create"
        => /\ C18_Once(calls[p], C18_Requests("Create"))
           /\ \A i \in 1..(Len(calls[p]) - 1) : C28_Succeeded(calls[p][i], i)
           /\ Cardinality({i \in 1..Len(calls[p]) : calls[p][i].method = "POST"}) <= 1
           /\ d[p].id # ""
              => /\ Len(calls[p]) >= 4
                 /\ C28_Succeeded(calls[p][4], 4)
                 /\ d[p].id = calls[p][4].ids[1]

\* a Create that sent all five requests and returned the identity
C28_Witness ==
    \E p \in Procs :
        /\ op[p] = "Create" /\ pc[p] = "done" /\ ret[p] = NoErr /\ d[p].id # ""
        /\ Len(calls[p]) = 5
        /\ \A i \in 1..5 : calls[p][i].method = C18_Requests("Create")[i].method
        /\ calls[p][5].code = StatusOK

\* the instance p leaves the point of Create where the POST is due
C29_PostStep(p) == pc[p] = "c_post" /\ pc'[p] # "c_post"

\* the records of the natural key of p
C29_OfKey(p, S) == Matches(S, d[p].device_id, d[p].service_name)

(* C29: nothing but its own pre-create search holds back the POST of a
   Create.  Once that search has found nothing, the Create sends its POST
   whatever the remote holds by then and whatever another instance is doing,
   and an accepted POST adds one more record of the natural key: two Creates
   of one key whose requests interleave both pass the check and both POST. *)
C29_NoMutualExclusion ==
    [][\A p \in Procs :
         C29_PostStep(p)
         => \/ prepareDeviceServiceJSON(d[p], TRUE).err # NoErr
            \/ /\ Len(calls'[p]) = Len(calls[p]) + 1
               /\ Last(calls'[p]).method = "POST"
               /\ (~Last(calls'[p]).err /\ Last(calls'[p]).code \in SuccessCodes)
                  => Cardinality(C29_OfKey(p, services'))
                       = Cardinality(C29_OfKey(p, services)) + 1]_vars

\* two Creates of one key have both passed the check and both had their POST
\* accepted: the remote holds two services of that key
C29_Witness ==
    /\ \A p \in Procs :
         /\ op[p] = "Create" /\ Len(calls[p]) >= 3
         /\ Listing(calls[p][2]) /\ Len(calls[p][2].ids) = 0
         /\ calls[p][3].method = "POST" /\ ~calls[p][3].err
         /\ calls[p][3].code \in SuccessCodes
    /\ d["p1"].device_id = d["p2"].device_id
    /\ d["p1"].service_name = d["p2"].service_name
    /\ Cardinality(C29_OfKey("p1", services)) = 2

(* C30: every operation ends with success or with a returned error; none
   ends the process, and in particular not the Read of the X509 configuration
   with a declared certificate that pem.Decode cannot decode. *)
C30_NoAbort ==
    /\ \A p \in XProcs : xret[p].kind # "panic"
    /\ \A p \in Procs : ret[p].kind # "panic"

----------------------------------------------------------------------------
(* The claims on the fields of the payloads *)

(* C31 as stated: the payload of a creation always carries service_name and
   protocol, and the payload of an update carries neither. *)
C31_ImmutableOnCreateOnly ==
    (tout.done /\ tout.err = NoErr)
    => IF tin.newResource
       THEN {"service_name", "protocol"} \subseteq Marshalled(tout.json)
       ELSE {"service_name", "protocol"} \cap Marshalled(tout.json) = {}

(* What holds of the payloads: the payload of a creation carries protocol,
   and carries service_name when the declared service_name is not the empty
   string (the field is omitempty); the payload of an update carries
   neither. *)
C31_ImmutableWhenNamed ==
    (tout.done /\ tout.err = NoErr)
    => IF tin.newResource
       THEN /\ "protocol" \in Marshalled(tout.json)
            /\ tin.d.service_name # "" => "service_name" \in Marshalled(tout.json)
       ELSE {"service_name", "protocol"} \cap Marshalled(tout.json) = {}

C31_Witness ==
    /\ tout.done /\ tout.err = NoErr /\ tin.newResource
    /\ tin.d.service_name = "svcA"
    /\ tout.json.service_name = "svcA" /\ tout.json.protocol = tin.d.protocol

\* an update of a named service was translated
C31_UpdateReached ==
    /\ tout.done /\ tout.err = NoErr /\ ~tin.newResource
    /\ tin.d.service_name = "svcA"
    /\ Marshalled(tout.json) = {"port", "connection_policy"}

\* the wire object w with the list f present and empty
C32_PresentEmpty(w, f) ==
    IF f = "global_domains" THEN [w EXCEPT !.global_domains = PtrList(<<>>)]
    ELSE [w EXCEPT !.subprotocols = PtrList(<<>>)]

\* what fillDeviceService records of the list f of the wire object w
C32_Recorded(w, f) ==
    IF f = "global_domains" THEN fillDeviceService(ZeroD, w).global_domains
    ELSE fillDeviceService(ZeroD, w).subprotocols

(* C32: when the wire object omits global_domains or subprotocols, what
   fillDeviceService records of that field differs from what it records when
   the field is present and empty. *)
C32_UnsetIsNotEmpty ==
    tout.filled
    => /\ ~tout.json.global_domains.set
          => tout.back.global_domains
             # C32_Recorded(C32_PresentEmpty(tout.json, "global_domains"), "global_domains")
       /\ ~tout.json.subprotocols.set
          => tout.back.subprotocols
             # C32_Recorded(C32_PresentEmpty(tout.json, "subprotocols"), "subprotocols")

\* a wire object that holds a list is read back as that list
C32_PresentReached ==
    /\ tout.filled
    /\ tout.json.subprotocols = PtrList(<<"SSH_X11">>)
    /\ tout.back.subprotocols = {"SSH_X11"}

----------------------------------------------------------------------------
(* The claims on the status codes *)

(* C33: every remote call takes both status 200 and status 204 for success,
   the lookup and read requests included: no operation returns the remote
   error "API returned error: <code>" for an answer of status 200 or 204. *)
C33_SuccessCodes ==
    /\ \A p \in XProcs : xret[p].kind = "api" => xret[p].code \notin SuccessCodes
    /\ \A p \in Procs : ret[p].kind = "api" => ret[p].code \notin SuccessCodes

\* a mutating request answered 204 is taken for done
C33_MutationReached ==
    \E p \in XProcs :
        /\ xop[p] = "Delete" /\ XIdle(p) /\ xret[p] = NoErr
        /\ xcalls[p][1].method = "DELETE" /\ xcalls[p][1].code = StatusNoContent

----------------------------------------------------------------------------
(* The claims on the update of a device service *)

\* the answer to the request c is a success
C34_Accepted(c) == ~c.err /\ c.code \in SuccessCodes

(* C34: every PUT of a device service is sent with the query force=true, and
   an Update whose PUT was accepted has, when it returns, sent one more
   request, the GET of the service by the opaque id the instance had when the
   Update began. *)
C34_ForcedAndReread ==
    \A p \in Procs :
        /\ \A i \in 1..Len(calls[p]) :
             calls[p][i].method = "PUT" => calls[p][i].query = "force=true"
        /\ (op[p] = "Update" /\ Idle(p) /\ calls[p] # <<>> /\ C34_Accepted(calls[p][1]))
           => /\ Len(calls[p]) = 2
              /\ calls[p][1].method = "PUT"
              /\ calls[p][2].method = "GET" /\ calls[p][2].what = "service"
              /\ calls[p][2].id = loc[p].id0 /\ loc[p].id0 # ""
              /\ calls[p][2].id = calls[p][1].id

C34_Witness ==
    \E p \in Procs :
        /\ op[p] = "Update" /\ Idle(p) /\ ret[p] = NoErr
        /\ Len(calls[p]) = 2
        /\ calls[p][1].method = "PUT" /\ calls[p][1].query = "force=true"
        /\ C34_Accepted(calls[p][1])
        /\ calls[p][2].method = "GET" /\ calls[p][2].id = "0"
        /\ calls[p][2].code = StatusOK /\ calls[p][2].kind = "object"

\* the re-read of an Update finds the record gone
C34_GoneReached ==
    \E p \in Procs :
        /\ op[p] = "Update" /\ Idle(p) /\ Len(calls[p]) = 2
        /\ C34_Accepted(calls[p][1]) /\ calls[p][2].code = StatusNotFound

----------------------------------------------------------------------------
(* The claims on the default X509 configuration *)

\* resourceConfigX509Read has returned on p after the remote reported the
\* default configuration
C35_ReadDefault(p) ==
    /\ XIdle(p) /\ xop[p] \in {"Read", "Create", "Update"}
    /\ xcalls[p] # <<>>
    /\ Last(xcalls[p]).method = "GET" /\ ~Last(xcalls[p]).err
    /\ Last(xcalls[p]).code = StatusOK /\ Last(xcalls[p]).kind = "object"
    /\ xloc[p].cfg.default

(* C35: when the remote reports the default configuration, the Read of the
   X509 configuration returns no error and leaves the instance without id,
   whatever certificates are declared: also those that are not PEM or do not
   parse. *)
C35_DefaultClears ==
    \A p \in XProcs :
        C35_ReadDefault(p) => xret[p] = NoErr /\ xd[p].id = ""

C35_Witness ==
    \E p \in XProcs :
        /\ C35_ReadDefault(p) /\ xop[p] = "Read"
        /\ xloc[p].id0 = "x509Config"
        /\ xloc[p].ca = NotPEM
        /\ xret[p] = NoErr /\ xd[p].id = ""

\* the declared certificate that does not parse is looked at when the remote
\* reports a configuration of its own
C35_ParsedReached ==
    \E p \in XProcs :
        /\ XIdle(p) /\ xop[p] = "Read" /\ ~xloc[p].cfg.default
        /\ Last(xcalls[p]).code = StatusOK /\ Last(xcalls[p]).kind = "object"
        /\ xloc[p].ca = BadDER /\ xret[p].kind = "x509"

----------------------------------------------------------------------------
(* The claims on an invalid sub-protocol set *)

\* no request of l asks the remote to make or change a record
C36_NoMutation(l) == \A i \in 1..Len(l) : l[i].method \notin {"POST", "PUT"}

(* C36: when the declared sub-protocol set is invalid for the declared
   protocol, the step of Create that would send the POST and the Update that
   would send the PUT send none, leave the records of the remote as they are
   and return the configuration error (or, for Update, the error of the
   version gate). *)
C36_InvalidNeverSent ==
    [][\A p \in Procs :
         /\ (pc[p] = "c_post" /\ pc'[p] # "c_post" /\ C6_Rejected(d[p]))
            => /\ services' = services
               /\ C36_NoMutation(calls'[p])
               /\ ret'[p].kind = "config"
         /\ \A r \in Planned(p) :
              (/\ d[p].id # "" /\ op'[p] = "Update" /\ nops' = nops + 1
               /\ C6_Rejected(r)
               /\ Begin(p, "Update") /\ UpdateWith(p, r))
              => /\ services' = services
                 /\ calls'[p] = <<>>
                 /\ ret'[p].kind \in {"config", "version"}]_vars

C36_Witness ==
    \E p \in Procs :
        /\ op[p] = "Update" /\ Idle(p) /\ ret[p].kind = "config"
        /\ calls[p] = <<>>
        /\ d[p].id # "" /\ d[p].protocol = "SSH"

\* a Create gives up on its payload, after the two lookups
C36_CreateReached ==
    \E p \in Procs :
        /\ op[p] = "Create" /\ Idle(p) /\ ret[p].kind = "config"
        /\ Len(calls[p]) = 2 /\ C36_NoMutation(calls[p])

----------------------------------------------------------------------------
(* The claims on a Create that fails *)

\* the ids of the records the remote made on the requests of l
C37_Made(l) == {l[i].made : i \in 1..Len(l)} \ {""}

(* C37: whenever Create returns an error, the remote holds no record made on
   a request of that Create. *)
C37_CreateAtomic ==
    \A p \in Procs :
        (op[p] = "Create" /\ Idle(p) /\ ret[p] # NoErr)
        => \A r \in services : r.id \notin C37_Made(calls[p])

\* a Create whose POST the remote refused leaves no record
C37_RefusedReached ==
    \E p \in Procs :
        /\ op[p] = "Create" /\ Idle(p) /\ ret[p].kind = "api"
        /\ Len(calls[p]) = 3 /\ calls[p][3].method = "POST"
        /\ C37_Made(calls[p]) = {} /\ services = {}

(* What holds of a failed Create: it leaves a record only when the remote
   applied its POST, that is when the answer to the POST was lost or a later
   step (the search for the id, the Read) failed. *)
C37_LeftOnlyAfterPost ==
    \A p \in Procs :
        (op[p] = "Create" /\ Idle(p) /\ ret[p] # NoErr /\ C37_Made(calls[p]) # {})
        => /\ Len(calls[p]) >= 3 /\ calls[p][3].method = "POST"
           /\ calls[p][3].made # ""
           /\ calls[p][3].err \/ Len(calls[p]) >= 4

----------------------------------------------------------------------------
(* The claims on the changed fields of an update *)

(* C38: the payload of an update carries every mutable attribute the operator
   changed in this pass; in particular, when subprotocols goes from a set
   with elements to the empty set, the payload holds the subprotocols list,
   and the list is empty. *)
C38_ChangedAreCarried ==
    (tout.done /\ tout.err = NoErr /\ ~tin.newResource)
    => /\ \A f \in {"connection_policy", "port", "global_domains", "subprotocols"} :
            C13_Changed(f) => f \in Marshalled(tout.json)
       /\ (tin.prior.subprotocols # {} /\ tin.d.subprotocols = {})
          => tout.json.subprotocols = PtrList(<<>>)

\* global_domains emptied by the operator is carried as an empty list
C38_DomainsClearedReached ==
    /\ tout.done /\ tout.err = NoErr /\ ~tin.newResource
    /\ tin.d.old_global_domains = {"dom"} /\ tin.d.global_domains = {}
    /\ tout.json.global_domains = PtrList(<<>>)

(* What holds of the payload of an update: connection_policy and port are
   carried, global_domains is carried when it changed, and subprotocols is
   carried when, and only when, the declared set has an element. *)
C38_CarriedUnlessEmptied ==
    (tout.done /\ tout.err = NoErr /\ ~tin.newResource)
    => /\ {"connection_policy", "port"} \subseteq Marshalled(tout.json)
       /\ C13_Changed("global_domains") => "global_domains" \in Marshalled(tout.json)
       /\ "subprotocols" \in Marshalled(tout.json) <=> tin.d.subprotocols # {}

----------------------------------------------------------------------------
(* The claims on the parent device *)

\* the lookup of the parent device, the first request of the Create on p, was
\* answered that there is no such device
C39_NoDevice(p) ==
    /\ op[p] = "Create" /\ calls[p] # <<>>
    /\ calls[p][1].method = "GET" /\ calls[p][1].what = "device"
    /\ ~calls[p][1].err /\ calls[p][1].code = StatusNotFound

(* C39: a Create whose lookup of the parent device finds no device has
   returned the error "device with ID <device_id> doesn't exists", naming a
   device the remote does not have, and has sent that one request only:
   neither a search nor the POST. *)
C39_NoDeviceNoRequest ==
    \A p \in Procs :
        C39_NoDevice(p)
        => /\ Idle(p)
           /\ ret[p].kind = "nodevice" /\ ret[p].what \in DeviceIds \ RemoteDevices
           /\ Len(calls[p]) = 1
           /\ d[p].id = ""

C39_Witness ==
    \E p \in Procs :
        /\ C39_NoDevice(p) /\ Idle(p)
        /\ ret[p] = Err("nodevice", "dev9")
        /\ calls[p][1].text = "not found" /\ Len(calls[p]) = 1

\* with the parent device on the remote the Create goes on to its search
C39_DeviceReached ==
    \E p \in Procs :
        /\ op[p] = "Create" /\ Len(calls[p]) >= 2
        /\ calls[p][1].what = "device" /\ calls[p][1].code = StatusOK
        /\ calls[p][2].what = "search"

----------------------------------------------------------------------------
(* The claims on the form of the tag *)

(* C40 as stated: the tag the script has created is of the form vX.Y.Z,
   whatever the tags of the repository were. *)
C40_TagForm ==
    "tag" \in Range(rdone) => VersionForm(rver)

(* C40, amended: the tag the script has created is of the form vX.Y.Z when
   the version was given with --version or was computed from a latest tag of
   the form vX.Y.Z. *)
C40_TagFormFromForm ==
    ("tag" \in Range(rdone) /\ (ropt.force_version # <<>> \/ VersionForm(rtag)))
    => VersionForm(rver) /\ rver \in rtags

\* a tag computed from the latest tag
C40_Witness ==
    /\ "tag" \in Range(rdone) /\ ropt.force_version = <<>>
    /\ rtag = Tag(0, 14, 7) /\ ropt.release_type = "major"
    /\ rver = <<"v", "1", ".", "0", ".", "0">> /\ rver \in rtags

\* a tag given with --version
C40_ForcedReached ==
    /\ "tag" \in Range(rdone) /\ ropt.force_version = Tag(1, 9, 9)
    /\ rtag = Tag(0, 14, 7) /\ rver = Tag(1, 9, 9) /\ rver \in rtags

\* a patch release in a repository without tags computes v..1, which git
\* does not take for the name of a tag
C40_RefusedReached ==
    /\ rtag = <<>> /\ rver = <<"v", ".", ".", "1">>
    /\ "tag_failed" \in Range(rdone) /\ rtags = {}

\* a tag of two numbers is completed
C40_TwoNumbersReached ==
    /\ rtag = <<"v", "1", ".", "0">> /\ rver = <<"v", "1", ".", "0", ".", "1">>
    /\ "tag" \in Range(rdone)

\* a minor release in a repository without tags creates the tag v.1.0
C40_UnformedReached ==
    /\ rtag = <<>> /\ ropt.release_type = "minor"
    /\ rver = <<"v", ".", "1", ".", "0">>
    /\ "tag" \in Range(rdone) /\ rver \in rtags

====
